---- MODULE Spec2Model ----
(***************************************************************************)
(* GRREngine: the scripted-action interpreter (ActionRunner), the game     *)
(* state it mutates (GameState), the engine operations that reset it       *)
(* (Engine.setMode, Engine._respawn) and the fixed-timestep GameLoop.      *)
(*                                                                         *)
(* Time is counted in whole quanta.  For the interpreter one second is     *)
(* QuantaPerSecond quanta.  For the game loop a quantum stands for one     *)
(* unit in the last place of the double fixedDt = 1/60: fixedDt is         *)
(* SubSteps quanta (scaled down), and 0.25 s, a binary fraction, is        *)
(* exactly 15 fixedDt plus one quantum.  Sums and differences of times     *)
(* are exact (the rounding of additions is not modelled).                  *)
(***************************************************************************)
EXTENDS Integers, Sequences, FiniteSets, TLC

\* ------------------------------------------------------------------ bounds
QuantaPerSecond == 2
MaxActions == 3
MaxKindRuns == 2
MaxResets == 2
MaxFrames == 3
SubSteps == 4
MaxTicks == 3
MaxEvents == 2
MaxVar == 2
MaxAmount == 2
MaxPresses == 2
MaxDialogTicks == 8
MaxCombatTicks == 12

\* The collaborators' times in clock units, fixedDt being TickUnits of them.
\* The engine counts in doubles: n subtractions of fixedDt from a time of
\* n/60 s leave a little more or less than 0, the odd unit here.  0.15 s is
\* above 0 after 9 subtractions (2.1e-17), 0.3 s after 18, 0.5 s after 30,
\* 0.2 s after 12; 1 s is below 0 after 60 (-1.4e-15); 0.2 s is above
\* 0.15 - 0.05 = 0.09999999999999999 after 6 subtractions and below after 7.
TickUnits == 1000
attackDuration == 9001
attackCooldownTime == 18001
playerInvincibleTime == 59999
knockbackDuration == 9001
contactDamageCooldown == 30001
enemyFlashTime == 12001
sameSwingFlash == 5999
triggerCooldown == 30001
enemyHealth == 3

Sec(n) == n * QuantaPerSecond

\* The dt values passed to ActionRunner.update: half a second, 1 s, 2 s.
Dts == {1, Sec(1), Sec(2)}

Null == "null"
\* The entities that can be passed to run as the source: the enemies of the
\* world (CombatSystem._defeatEnemy passes the defeated enemy).  An entity
\* object is named by its editor name and the generation of the world that
\* instantiated it: Engine._instantiateEntities makes new objects.
Entities == {"enemy1", "enemy2"}
NoEntity == [id |-> Null, gen |-> 0]

\* Spawn points placed in the editor (EntityPlacer.entities of type 'spawn').
SpawnIds == {"default", "west_path"}
SpawnPos(id) == IF id = "default" THEN <<20, 17>> ELSE <<10, 15>>

\* ------------------------------------------------------------- the actions
\* An action is a record: `type` plus the keys of its `params` object; a key
\* that is absent from the record is a key the script left out (an action
\* without `params` behaves as one with empty params, ActionRunner.js:79).
SetScore5 == [type |-> "set_variable", variable |-> "score", value |-> 5]
ShowHi == [type |-> "show_dialog", text |-> "Hi", duration |-> 2]
Wait1 == [type |-> "wait", seconds |-> 1]
SetFlagF == [type |-> "set_flag", flag |-> "f"]
CheckFlagF == [type |-> "check_flag", flag |-> "f"]
LockInput == [type |-> "lock_input"]
ShowBye1 == [type |-> "show_dialog", text |-> "Bye", duration |-> 1]
GiveGold == [type |-> "give_item", item |-> "Gold", amount |-> 1]
GiveKey == [type |-> "give_item", item |-> "Key", amount |-> 1]
CheckKey == [type |-> "check_item", item |-> "Key", amount |-> 1]

\* The scripts of the general specification: one action of each signal
\* (Continue, Suspend, Abort-or-Continue) and the input lock.
CorePool == {SetScore5, ShowHi, SetFlagF, CheckFlagF, LockInput}

\* The scripts around the gates: both gates, passing and failing, with the
\* actions that make them pass and visible effects behind them.
CheckFlagNotF == [type |-> "check_flag", flag |-> "f", expect |-> FALSE]
GatePool == {SetFlagF, CheckFlagF, CheckFlagNotF, GiveKey, CheckKey, GiveGold}

\* The scripts around the actions that find nothing to act on: a kind
\* _execute has no case for, an action without a type, a teleport to a spawn
\* id no spawn point has, remove_entity (run with and without a source
\* entity), and a teleport without params.
HealPlayer2 == [type |-> "heal_player", amount |-> 2]
NoType == [text |-> "no type"]
TeleportNowhere == [type |-> "teleport", spawnId |-> "nowhere"]
TeleportWest == [type |-> "teleport", spawnId |-> "west_path"]
RemoveEntity == [type |-> "remove_entity"]
TeleportNoParams == [type |-> "teleport"]
InertPool == {HealPlayer2, NoType, TeleportNowhere, RemoveEntity, TeleportNoParams,
              TeleportWest, SetFlagF, Wait1}

\* One action of every type the script editor offers, with the defaults of
\* its parameters, and the combat actions with values other than the initial
\* player stats.
DamagePlayer1 == [type |-> "damage_player", amount |-> 1]
SetMaxHp8 == [type |-> "set_max_hp", value |-> 8]
SetAttack2 == [type |-> "set_attack", value |-> 2]
ScreenFadeOut == [type |-> "screen_fade", direction |-> "out", duration |-> 1]
EditorActions ==
    { [type |-> "show_dialog", text |-> "Hello!", duration |-> 3],
      [type |-> "set_flag", flag |-> "my_flag", value |-> TRUE],
      [type |-> "check_flag", flag |-> "", expect |-> TRUE],
      [type |-> "set_variable", variable |-> "score", value |-> 0],
      [type |-> "add_variable", variable |-> "score", amount |-> 1],
      [type |-> "give_item", item |-> "Key", amount |-> 1],
      [type |-> "remove_item", item |-> "Key", amount |-> 1],
      [type |-> "check_item", item |-> "Key", amount |-> 1],
      [type |-> "teleport", spawnId |-> "default"],
      [type |-> "wait", seconds |-> 1],
      [type |-> "lock_input", locked |-> TRUE],
      [type |-> "camera_pan", x |-> 0, y |-> 0, duration |-> 1],
      [type |-> "camera_follow"],
      [type |-> "remove_entity"],
      HealPlayer2, DamagePlayer1,
      [type |-> "set_max_hp", value |-> 6], SetMaxHp8,
      [type |-> "set_attack", value |-> 1], SetAttack2,
      ScreenFadeOut }

\* The keys of ACTION_TYPES.
ACTION_TYPES == {a.type : a \in EditorActions}

\* Every kind ActionRunner._execute knows, with the parameter shapes that take
\* a different branch (missing, zero, negative), an unknown kind and an action
\* without a type.
AllActions ==
    { SetScore5, ShowHi, Wait1, SetFlagF, CheckFlagF, LockInput,
      GiveGold, GiveKey, CheckKey,
      [type |-> "show_dialog"],
      [type |-> "show_dialog", text |-> "Bye", duration |-> -1],
      [type |-> "wait"],
      [type |-> "wait", seconds |-> 0],
      [type |-> "wait", seconds |-> -1],
      [type |-> "set_flag", flag |-> "f", value |-> FALSE],
      CheckFlagNotF,
      [type |-> "set_variable", variable |-> "score"],
      [type |-> "add_variable", variable |-> "score"],
      [type |-> "add_variable", variable |-> "score", amount |-> 0],
      [type |-> "remove_item", item |-> "Key"],
      [type |-> "check_item", item |-> "Gold", amount |-> 2],
      [type |-> "teleport"],
      [type |-> "teleport", spawnId |-> "nowhere"],
      [type |-> "lock_input", locked |-> FALSE],
      [type |-> "camera_pan", x |-> 1, y |-> 2, duration |-> 1],
      [type |-> "camera_follow"],
      [type |-> "remove_entity"],
      [type |-> "heal_player", amount |-> 2],
      [text |-> "no type"] }

Has(a, k) == k \in DOMAIN a
\* JavaScript `p.k || d` on a number: a missing key and 0 both give d.
OrNum(a, k, d) == IF Has(a, k) /\ a[k] # 0 THEN a[k] ELSE d
\* JavaScript `p.k ?? d`: only a missing key gives d.
Coalesce(a, k, d) == IF Has(a, k) THEN a[k] ELSE d
\* JavaScript `p.k !== false`.
NotFalse(a, k) == ~(Has(a, k) /\ a[k] = FALSE)
OrStr(a, k, d) == IF Has(a, k) /\ a[k] # "" THEN a[k] ELSE d

\* ------------------------------------------------------------------- state
VARIABLES
    \* ActionRunner
    running, queue, waitTimer, inputLocked, sourceEntity,
    \* GameState
    flags, vars, inventory,
    \* Engine: mode, death state, dialog, player position, camera, the
    \* generation of the world's entity objects and which of them are active
    mode, isDead, dialogText, dialogTimer, player, camera, worldGen, active,
    \* GameLoop
    loopRunning, rafId, accumulator, lastTime, frameCount, fpsTimer, fps,
    \* GameLoop's host: the wall clock, the frame callbacks requested and not
    \* yet run or cancelled, the last id handed out, the position inside the
    \* frame callback that is executing
    clock, pendingFrames, lastRafId, pc,
    \* history: the ids of the queued actions, the ids executed so far, the ids
    \* thrown away unexecuted, the next id, the number of resets, the last call
    \* made, the action that suspended the script and the time passed to update
    \* since, the frame callbacks run, the unclamped frame time and the
    \* simulation steps of the last one
    qids, executed, discarded, nextId, resets, lastCall, pending, elapsed,
    frames, rawFrameTime, steps,
    \* what the frame callback that ran last has called so far, in order, the
    \* last frame id handed out when it began, and whether it has thrown with no
    \* start() made since
    frameLog, rafAtBegin, halted,
    \* every action ever passed to run, by id, and the ids passed while running
    enqueued, appended,
    \* CombatSystem's timers that are above 0, TriggerSystem's cooldowns, whether
    \* the player has a velocity, ScreenTransition's state
    timers, cooldowns, moving, fade,
    \* history: what the last Engine._updatePlay called, accepted and wrote, in
    \* order, and the number of such ticks
    tickLog, ticks,
    \* a GameState as JavaScript keeps it, its objects with their property
    \* order, and whether it has just been through serialize and deserialize
    store, restored,
    \* Input._keysPressed, and history: the key presses it holds (by number),
    \* the number of simulation ticks that found each press in it, and the
    \* number of interactions the ticks have started
    keysPressed, fresh, seen, started,
    \* CombatSystem's and TriggerSystem's timers in clock units, the enemies'
    \* _health, and history: the times each enemy was damaged since the last
    \* successful tryAttack
    clk, health, swing

runnerVars == <<running, queue, waitTimer, inputLocked, sourceEntity>>
gameVars == <<flags, vars, inventory>>
engineVars == <<mode, isDead, dialogText, dialogTimer, player, camera, worldGen, active>>
loopVars == <<loopRunning, rafId, accumulator, lastTime, frameCount, fpsTimer, fps,
              clock, pendingFrames, lastRafId, pc, frames, rawFrameTime, steps,
              frameLog, rafAtBegin, halted>>
histVars == <<qids, executed, discarded, nextId, resets, lastCall, pending, elapsed,
              enqueued, appended>>
tickVars == <<timers, cooldowns, moving, fade, tickLog, ticks>>
storeVars == <<store, restored>>
inputVars == <<keysPressed, fresh, seen, started>>
combatVars == <<clk, health, swing>>
allVars == <<runnerVars, gameVars, engineVars, loopVars, histVars, tickVars, storeVars,
             inputVars, combatVars>>

EmptyFn == [x \in {} |-> TRUE]
\* CombatSystem after its constructor or reset(), TriggerSystem after reset().
NoClocks == [attack |-> 0, cooldown |-> 0, invincible |-> 0, knockback |-> 0,
             flash |-> EmptyFn, contact |-> EmptyFn, trigger |-> EmptyFn]
NoHits == [e \in Entities |-> 0]
NoHealth == [e \in Entities |-> 0]
Spawned == [e \in Entities |-> enemyHealth]
Put(f, k, v) == [x \in DOMAIN f \cup {k} |-> IF x = k THEN v ELSE f[x]]

\* The interpreter, the game state and the engine fields the interpreter
\* writes, as one record: the operators below are the methods, from record to
\* record.  `outcome` is the way the last drain pass ended.
State ==
    [ running |-> running, queue |-> queue, waitTimer |-> waitTimer,
      inputLocked |-> inputLocked, sourceEntity |-> sourceEntity,
      flags |-> flags, vars |-> vars, inventory |-> inventory,
      dialogText |-> dialogText, dialogTimer |-> dialogTimer,
      player |-> player, camera |-> camera, worldGen |-> worldGen,
      active |-> active,
      qids |-> qids, executed |-> executed, discarded |-> discarded,
      pending |-> pending, elapsed |-> elapsed, outcome |-> "none" ]

Commit(s) ==
    /\ running' = s.running
    /\ queue' = s.queue
    /\ waitTimer' = s.waitTimer
    /\ inputLocked' = s.inputLocked
    /\ sourceEntity' = s.sourceEntity
    /\ flags' = s.flags
    /\ vars' = s.vars
    /\ inventory' = s.inventory
    /\ dialogText' = s.dialogText
    /\ dialogTimer' = s.dialogTimer
    /\ player' = s.player
    /\ camera' = s.camera
    /\ active' = s.active
    /\ qids' = s.qids
    /\ executed' = s.executed
    /\ discarded' = s.discarded
    /\ pending' = s.pending
    /\ elapsed' = s.elapsed

\* ---------------------------------------------------------------- GameState
setFlag(s, key, value) == [s EXCEPT !.flags = Put(@, key, value)]

getFlag(s, key) == key \in DOMAIN s.flags /\ s.flags[key]

setVar(s, key, value) == [s EXCEPT !.vars = Put(@, key, value)]

getVar(s, key, defaultVal) == IF key \in DOMAIN s.vars THEN s.vars[key] ELSE defaultVal

\* (this.vars[key] || 0) + amount
addVar(s, key, amount) ==
    [s EXCEPT !.vars = Put(@, key, (IF key \in DOMAIN @ THEN @[key] ELSE 0) + amount)]

FindItem(inv, name) == {i \in 1..Len(inv) : inv[i].name = name}

addItem(s, name, amount) ==
    LET at == FindItem(s.inventory, name)
    IN  IF at # {}
        THEN [s EXCEPT !.inventory =
                [i \in 1..Len(@) |-> IF i \in at THEN [@[i] EXCEPT !.amount = @ + amount]
                                                 ELSE @[i]]]
        ELSE [s EXCEPT !.inventory = Append(@, [name |-> name, amount |-> amount])]

removeItem(s, name, amount) ==
    LET at == FindItem(s.inventory, name)
        less == [i \in 1..Len(s.inventory) |->
                    IF i \in at THEN [s.inventory[i] EXCEPT !.amount = @ - amount]
                                ELSE s.inventory[i]]
    IN  IF at = {} THEN s
        ELSE IF \E i \in at : less[i].amount <= 0
        THEN [s EXCEPT !.inventory = SelectSeq(less, LAMBDA e : e.name # name)]
        ELSE [s EXCEPT !.inventory = less]

hasItem(s, name, amount) ==
    \E i \in FindItem(s.inventory, name) : s.inventory[i].amount >= amount

\* -------------------------------------------------------------- ActionRunner
\* A _finish without the input unlock.
_finishKeepsLock(s) == [s EXCEPT !.running = FALSE, !.sourceEntity = NoEntity]

\* ActionRunner._finish.
_finish(s) ==
    [s EXCEPT !.running = FALSE, !.sourceEntity = NoEntity, !.inputLocked = FALSE]

\* A key a script left out reads as JavaScript's undefined.
Key(a, k) == Coalesce(a, k, "undefined")

SigDone(s) == [st |-> s, result |-> "done"]
SigWait(s, duration) == [st |-> [s EXCEPT !.waitTimer = duration], result |-> "wait"]
SigStop(s) == [st |-> s, result |-> "stop"]

\* A show_dialog that waits the default 3 s whatever its duration.
show_dialogDefaultWait(s, p) ==
    LET duration == Sec(OrNum(p, "duration", 3))
    IN  SigWait([s EXCEPT !.dialogText = OrStr(p, "text", "..."),
                          !.dialogTimer = duration], Sec(3))

show_dialog(s, p) ==
    LET duration == Sec(OrNum(p, "duration", 3))
    IN  SigWait([s EXCEPT !.dialogText = OrStr(p, "text", "..."),
                          !.dialogTimer = duration], duration)

wait(s, p) == SigWait(s, Sec(OrNum(p, "seconds", 1)))

set_flag(s, p) == SigDone(setFlag(s, Key(p, "flag"), NotFalse(p, "value")))

check_flag(s, p) ==
    IF getFlag(s, Key(p, "flag")) # NotFalse(p, "expect") THEN SigStop(s) ELSE SigDone(s)

set_variable(s, p) == SigDone(setVar(s, Key(p, "variable"), Coalesce(p, "value", 0)))

add_variable(s, p) == SigDone(addVar(s, Key(p, "variable"), Coalesce(p, "amount", 1)))

give_item(s, p) ==
    LET amount == OrNum(p, "amount", 1)
        got == addItem(s, Key(p, "item"), amount)
        text == "Got " \o Key(p, "item")
                       \o (IF amount > 1 THEN " x" \o ToString(p.amount) ELSE "") \o "!"
    IN  SigWait([got EXCEPT !.dialogText = text, !.dialogTimer = Sec(2)], Sec(2))

\* A remove_item that shows a timed message, as give_item does.
remove_itemWaits(s, p) ==
    SigWait(removeItem(s, Key(p, "item"), OrNum(p, "amount", 1)), Sec(2))

remove_item(s, p) == SigDone(removeItem(s, Key(p, "item"), OrNum(p, "amount", 1)))

check_item(s, p) ==
    IF ~hasItem(s, Key(p, "item"), OrNum(p, "amount", 1)) THEN SigStop(s) ELSE SigDone(s)

teleport(s, p) ==
    LET spawnId == OrStr(p, "spawnId", "default")
    IN  IF spawnId \in SpawnIds THEN SigDone([s EXCEPT !.player = SpawnPos(spawnId)])
        ELSE SigDone(s)

lock_input(s, p) == SigDone([s EXCEPT !.inputLocked = NotFalse(p, "locked")])

camera_pan(s, p) ==
    LET duration == Sec(OrNum(p, "duration", 1))
    IN  SigWait([s EXCEPT !.camera =
                    [target |-> Null,
                     panTarget |-> <<OrNum(p, "x", 0), OrNum(p, "y", 0)>>,
                     panDuration |-> duration, panElapsed |-> 0]], duration)

camera_follow(s, p) ==
    SigDone([s EXCEPT !.camera = [@ EXCEPT !.panTarget = <<>>, !.target = "player"]])

\* The source entity is an object: deactivating one of an earlier world
\* generation does not touch the entities of the present world.
remove_entity(s, p) ==
    IF s.sourceEntity # NoEntity /\ s.sourceEntity.gen = s.worldGen
    THEN SigDone([s EXCEPT !.active = [@ EXCEPT ![s.sourceEntity.id] = FALSE]])
    ELSE SigDone(s)

\* The kinds _execute has a case for.
KnownKinds == {"show_dialog", "wait", "set_flag", "check_flag", "set_variable",
               "add_variable", "give_item", "remove_item", "check_item", "teleport",
               "lock_input", "camera_pan", "camera_follow", "remove_entity"}

\* An _execute that ends the script at an action it does not know.
_executeStopsOnUnknown(s, action) ==
    IF ~Has(action, "type") THEN SigStop(s)
    ELSE CASE action.type = "show_dialog" -> show_dialog(s, action)
           [] action.type = "wait" -> wait(s, action)
           [] action.type = "set_flag" -> set_flag(s, action)
           [] action.type = "teleport" -> teleport(s, action)
           [] action.type = "remove_entity" -> remove_entity(s, action)
           [] OTHER -> SigStop(s)

\* ActionRunner._execute: the new state and 'done', 'wait' or 'stop'.
_execute(s, action) ==
    IF ~Has(action, "type") THEN SigDone(s)
    ELSE CASE action.type = "show_dialog" -> show_dialog(s, action)
           [] action.type = "wait" -> wait(s, action)
           [] action.type = "set_flag" -> set_flag(s, action)
           [] action.type = "check_flag" -> check_flag(s, action)
           [] action.type = "set_variable" -> set_variable(s, action)
           [] action.type = "add_variable" -> add_variable(s, action)
           [] action.type = "give_item" -> give_item(s, action)
           [] action.type = "remove_item" -> remove_item(s, action)
           [] action.type = "check_item" -> check_item(s, action)
           [] action.type = "teleport" -> teleport(s, action)
           [] action.type = "lock_input" -> lock_input(s, action)
           [] action.type = "camera_pan" -> camera_pan(s, action)
           [] action.type = "camera_follow" -> camera_follow(s, action)
           [] action.type = "remove_entity" -> remove_entity(s, action)
           [] action.type \notin KnownKinds -> SigDone(s)

Range(q) == {q[i] : i \in 1..Len(q)}

\* this._queue.shift(): the head leaves the queue and is about to execute.
Shift(s) ==
    [s EXCEPT !.queue = Tail(@), !.qids = Tail(@), !.executed = Append(@, Head(s.qids))]

\* A 'stop' that throws away the next action only.
ClearQueueDropsOne(s) ==
    IF s.queue = <<>> THEN s
    ELSE [s EXCEPT !.queue = Tail(@), !.qids = Tail(@), !.discarded = @ \cup {Head(s.qids)}]

\* this._queue = [] on 'stop': what was still queued is thrown away.
ClearQueue(s) ==
    [s EXCEPT !.queue = <<>>, !.qids = <<>>, !.discarded = @ \cup Range(s.qids)]

\* A drain loop that takes 'stop' for 'done'.
RECURSIVE _processQueueIgnoresStop(_)
_processQueueIgnoresStop(s) ==
    IF Len(s.queue) > 0
    THEN LET action == Head(s.queue)
             r == _execute(Shift(s), action)
         IN  CASE r.result = "wait" ->
                    [r.st EXCEPT !.outcome = "suspended", !.pending = <<action>>, !.elapsed = 0]
               [] OTHER -> _processQueueIgnoresStop(r.st)
    ELSE [_finish(s) EXCEPT !.outcome = "finished"]

\* ActionRunner._processQueue.
RECURSIVE _processQueue(_)
_processQueue(s) ==
    IF Len(s.queue) > 0
    THEN LET action == Head(s.queue)
             r == _execute(Shift(s), action)
         IN  CASE r.result = "wait" ->
                    [r.st EXCEPT !.outcome = "suspended", !.pending = <<action>>, !.elapsed = 0]
               [] r.result = "stop" -> [_finish(ClearQueue(r.st)) EXCEPT !.outcome = "aborted"]
               [] OTHER -> _processQueue(r.st)
    ELSE [_finish(s) EXCEPT !.outcome = "finished"]

\* A run that queued the new actions ahead of the waiting ones.
PushFront(q, xs) == xs \o q

\* this._queue.push(...actions)
Push(q, xs) == q \o xs

\* A run that puts the new actions behind what an interrupted script left.
ReplaceKeepsQueue(s, actions, ids) ==
    [s EXCEPT !.queue = @ \o actions, !.qids = @ \o ids]

\* this._queue = [...actions]: the old queue, if any, is dropped unexecuted.
Replace(s, actions, ids) ==
    [s EXCEPT !.queue = actions, !.qids = ids, !.discarded = @ \cup Range(s.qids)]

\* A run that recorded the source entity before looking at `running`.
runReattributes(s, actions, src, ids) ==
    IF Len(actions) = 0 THEN s
    ELSE IF s.running
    THEN [s EXCEPT !.queue = Push(@, actions), !.qids = Push(@, ids), !.sourceEntity = src]
    ELSE _processQueue([Replace(s, actions, ids) EXCEPT
                            !.sourceEntity = src, !.running = TRUE, !.waitTimer = 0,
                            !.pending = <<>>, !.elapsed = 0])

\* ActionRunner.run(actions, sourceEntity); ids are the ids of the actions.
run(s, actions, src, ids) ==
    IF Len(actions) = 0 THEN s
    ELSE IF s.running
    THEN [s EXCEPT !.queue = Push(@, actions), !.qids = Push(@, ids)]
    ELSE _processQueue([Replace(s, actions, ids) EXCEPT
                            !.sourceEntity = src, !.running = TRUE, !.waitTimer = 0,
                            !.pending = <<>>, !.elapsed = 0])

\* ActionRunner.update(dt).
Min(a, b) == IF a < b THEN a ELSE b
\* The longest duration a script of the pools states is 2 s: past it the sum
\* of the dt values no longer matters.
ElapsedCap == Sec(2)
Later(s, dt) == [s EXCEPT !.elapsed = Min(@ + dt, ElapsedCap)]

update(s, dt) ==
    IF ~s.running THEN s
    ELSE IF s.waitTimer > 0
    THEN IF s.waitTimer - dt <= 0
         THEN _processQueue([s EXCEPT !.waitTimer = 0, !.pending = <<>>, !.elapsed = 0])
         ELSE Later([s EXCEPT !.waitTimer = @ - dt], dt)
    ELSE Later(s, dt)

\* ------------------------------------------------------------------- Engine
NoPlayer == <<>>
NoCamera == [target |-> Null, panTarget |-> <<>>, panDuration |-> 0, panElapsed |-> 0]
\* The last call: its arguments, the state it found (running, inputLocked, the
\* length of the execution log, the way the call before ended) and the way
\* its own drain pass ended ("none" when it drained nothing).
NoCall == [op |-> "none", actions |-> <<>>, src |-> NoEntity, dt |-> 0,
           wasRunning |-> FALSE, wasLocked |-> FALSE, base |-> 0,
           prevOutcome |-> "none", outcome |-> "none"]
AllActive == [e \in Entities |-> TRUE]
NoneActive == [e \in Entities |-> FALSE]

\* The state the constructors leave (ActionRunner, GameState, Engine, GameLoop).
Init ==
    /\ running = FALSE /\ queue = <<>> /\ waitTimer = 0
    /\ inputLocked = FALSE /\ sourceEntity = NoEntity
    /\ flags = EmptyFn /\ vars = EmptyFn /\ inventory = <<>>
    /\ mode = "edit" /\ isDead = FALSE
    /\ dialogText = Null /\ dialogTimer = 0
    /\ player = NoPlayer /\ camera = NoCamera
    /\ worldGen = 0 /\ active = NoneActive
    /\ loopRunning = FALSE /\ rafId = 0 /\ accumulator = 0
    /\ lastTime = 0 /\ frameCount = 0 /\ fpsTimer = 0 /\ fps = 0
    /\ clock = 0 /\ pendingFrames = {} /\ lastRafId = 0 /\ pc = "idle"
    /\ frames = 0 /\ rawFrameTime = 0 /\ steps = 0 /\ frameLog = <<>>
    /\ rafAtBegin = 0 /\ halted = FALSE
    /\ qids = <<>> /\ executed = <<>> /\ discarded = {}
    /\ nextId = 1 /\ resets = 0 /\ lastCall = NoCall
    /\ pending = <<>> /\ elapsed = 0
    /\ enqueued = <<>> /\ appended = {}
    /\ timers = {} /\ cooldowns = {} /\ moving = FALSE /\ fade = "none"
    /\ tickLog = <<>> /\ ticks = 0
    /\ store = [flags |-> <<>>, vars |-> <<>>, inventory |-> <<>>] /\ restored = FALSE
    /\ keysPressed = {} /\ fresh = {} /\ seen = <<>> /\ started = 0
    /\ clk = NoClocks /\ health = NoHealth /\ swing = NoHits

\* The interpreter is driven from Engine._updatePlay only: in play mode, and
\* not while the death screen is up (Engine.js:462-471).
Playing == mode = "play" /\ ~isDead

Call(op, actions, src, dt, outcome) ==
    [op |-> op, actions |-> actions, src |-> src, dt |-> dt,
     wasRunning |-> running, wasLocked |-> inputLocked, base |-> Len(executed),
     prevOutcome |-> lastCall.outcome, outcome |-> outcome]

\* A collaborator calls actionRunner.run(actions, src).
Run(actions, src) ==
    /\ Playing
    /\ nextId + Len(actions) - 1 <= MaxActions
    /\ LET ids == [i \in 1..Len(actions) |-> nextId + i - 1]
           s == run(State, actions, src, ids)
       IN  /\ Commit(s)
           /\ lastCall' = Call("run", actions, src, 0, s.outcome)
    /\ nextId' = nextId + Len(actions)
    /\ enqueued' = enqueued \o actions
    /\ appended' = IF running THEN appended \cup (nextId..(nextId + Len(actions) - 1))
                               ELSE appended
    /\ UNCHANGED <<mode, isDead, worldGen, resets, loopVars, tickVars, storeVars, inputVars, combatVars>>

\* Engine._updatePlay calls actionRunner.update(dt).
Update(dt) ==
    /\ Playing
    /\ LET s == update(State, dt)
       IN  /\ Commit(s)
           /\ lastCall' = Call("update", <<>>, NoEntity, dt, s.outcome)
    /\ UNCHANGED <<mode, isDead, worldGen, resets, nextId, enqueued, appended, loopVars,
                   tickVars, storeVars, inputVars, combatVars>>

\* A reset that leaves the inventory as it is.
resetKeepsInventory(s) == [s EXCEPT !.flags = EmptyFn, !.vars = EmptyFn]

\* GameState.reset().
reset(s) == [s EXCEPT !.flags = EmptyFn, !.vars = EmptyFn, !.inventory = <<>>]

\* The player stats Engine.setMode('play') sets.
InitialStats(s) ==
    setVar(setVar(setVar(setVar(s, "hp", 6), "maxHp", 6), "attack", 1), "defense", 0)

\* What Engine.setMode('play') does to the interpreter.
ResetRunner == running' = FALSE /\ UNCHANGED <<queue, waitTimer, inputLocked, sourceEntity>>

\* Engine.setMode('play').
SetModePlay ==
    /\ resets < MaxResets
    /\ resets' = resets + 1
    /\ mode' = "play"
    /\ LET g == InitialStats(reset(State))
       IN  flags' = g.flags /\ vars' = g.vars /\ inventory' = g.inventory
    /\ ResetRunner
    /\ isDead' = FALSE
    /\ player' = SpawnPos("default")
    /\ worldGen' = worldGen + 1 /\ active' = AllActive
    /\ camera' = [camera EXCEPT !.target = "player"]
    /\ lastCall' = Call("setModePlay", <<>>, NoEntity, 0, "none")
    /\ pending' = <<>> /\ elapsed' = 0
    /\ timers' = {} /\ cooldowns' = {} /\ moving' = FALSE /\ fade' = "fade_in"
    /\ clk' = NoClocks /\ health' = Spawned /\ swing' = NoHits
    /\ UNCHANGED <<dialogText, dialogTimer, qids, executed, discarded, nextId, enqueued,
                   appended, loopVars, tickLog, ticks, storeVars, inputVars>>

\* Engine.setMode('edit') (also Engine._returnToEditor).
SetModeEdit ==
    /\ mode = "play"
    /\ mode' = "edit"
    /\ camera' = [camera EXCEPT !.target = Null, !.panTarget = <<>>]
    /\ player' = NoPlayer
    /\ dialogText' = Null
    /\ isDead' = FALSE
    /\ active' = NoneActive
    /\ lastCall' = Call("setModeEdit", <<>>, NoEntity, 0, "none")
    /\ moving' = FALSE /\ fade' = "none"
    /\ UNCHANGED <<runnerVars, gameVars, dialogTimer, worldGen, qids, executed, discarded,
                   nextId, resets, pending, elapsed, enqueued, appended, loopVars, timers,
                   cooldowns, tickLog, ticks, storeVars, inputVars, combatVars>>

\* CombatSystem.damagePlayer brings hp to 0 and calls Engine.onPlayerDeath.
PlayerDeath ==
    /\ Playing
    /\ vars' = Put(vars, "hp", 0)
    /\ isDead' = TRUE
    /\ lastCall' = Call("playerDeath", <<>>, NoEntity, 0, "none")
    /\ timers' = timers \cup {"invincible"} /\ fade' = "death"
    /\ UNCHANGED <<runnerVars, flags, inventory, mode, dialogText, dialogTimer, player,
                   camera, worldGen, active, qids, executed, discarded, nextId, resets,
                   pending, elapsed, enqueued, appended, loopVars, cooldowns, moving,
                   tickLog, ticks, storeVars, inputVars, combatVars>>

\* Engine._respawn: the midpoint callback of the fade.  The interpreter is
\* not among the things it resets.
Respawn ==
    /\ mode = "play" /\ isDead
    /\ resets < MaxResets
    /\ resets' = resets + 1
    /\ isDead' = FALSE
    /\ vars' = Put(vars, "hp", IF "maxHp" \in DOMAIN vars THEN vars["maxHp"] ELSE 6)
    /\ player' = SpawnPos("default")
    /\ worldGen' = worldGen + 1 /\ active' = AllActive
    /\ camera' = [camera EXCEPT !.target = "player"]
    /\ dialogText' = Null
    /\ lastCall' = Call("respawn", <<>>, NoEntity, 0, "none")
    /\ timers' = {} /\ cooldowns' = {} /\ moving' = FALSE /\ fade' = "fade_in"
    /\ clk' = NoClocks /\ health' = Spawned /\ swing' = NoHits
    /\ UNCHANGED <<runnerVars, flags, inventory, mode, dialogTimer, qids, executed,
                   discarded, nextId, pending, elapsed, enqueued, appended, loopVars,
                   tickLog, ticks, storeVars, inputVars>>

\* ------------------------------------------- GameState, saved and restored
\* A JavaScript object is its properties in the order `for in` and spread
\* visit them: the keys that are array indices in ascending order, then the
\* other keys in the order they were first assigned.
FlagKeys == {"b", "a"}
VarKeys == {"x", "2", "1"}
ItemNames == {"Gold", "Key"}
IsIndex(k) == k \in {"1", "2"}
Index(k) == IF k = "1" THEN 1 ELSE 2
HasKey(o, k) == \E i \in 1..Len(o) : o[i].key = k
Get(o, k, d) == IF HasKey(o, k) THEN o[CHOOSE i \in 1..Len(o) : o[i].key = k].value ELSE d

\* o[k] = v
Assign(o, k, v) ==
    LET prop == [key |-> k, value |-> v]
    IN  IF HasKey(o, k) THEN [i \in 1..Len(o) |-> IF o[i].key = k THEN prop ELSE o[i]]
        ELSE IF IsIndex(k)
        THEN LET n == Cardinality({i \in 1..Len(o) :
                                     IsIndex(o[i].key) /\ Index(o[i].key) < Index(k)})
             IN  SubSeq(o, 1, n) \o <<prop>> \o SubSeq(o, n + 1, Len(o))
        ELSE Append(o, prop)

\* { ...o }: the properties of o, assigned to a new object in o's order.
RECURSIVE SpreadInto(_, _)
SpreadInto(acc, o) ==
    IF o = <<>> THEN acc ELSE SpreadInto(Assign(acc, Head(o).key, Head(o).value), Tail(o))
Spread(o) == SpreadInto(<<>>, o)

\* A serialize that writes the inventory last item first.
serializeReversed(g) ==
    [ flags |-> Spread(g.flags), vars |-> Spread(g.vars),
      inventory |-> [i \in 1..Len(g.inventory) |->
                        [name |-> g.inventory[Len(g.inventory) + 1 - i].name,
                         amount |-> g.inventory[Len(g.inventory) + 1 - i].amount]] ]

\* GameState.serialize().
serialize(g) ==
    [ flags |-> Spread(g.flags), vars |-> Spread(g.vars),
      inventory |-> [i \in 1..Len(g.inventory) |->
                        [name |-> g.inventory[i].name, amount |-> g.inventory[i].amount]] ]

\* GameState.deserialize(data), for the data serialize returns: an object
\* with the three fields, so neither `!data` nor `|| {}` applies.
deserialize(g, data) ==
    [ flags |-> data.flags, vars |-> data.vars,
      inventory |-> [i \in 1..Len(data.inventory) |->
                        [name |-> data.inventory[i].name,
                         amount |-> data.inventory[i].amount]] ]

Written(g) == store' = g /\ restored' = FALSE /\ UNCHANGED <<runnerVars, gameVars, engineVars, loopVars, histVars, tickVars, inputVars, combatVars>>

\* GameState.setFlag(key, value): !!value.
SetFlag(key, value) == Written([store EXCEPT !.flags = Assign(@, key, value)])

\* GameState.toggleFlag(key): !undefined is true.
ToggleFlag(key) == Written([store EXCEPT !.flags = Assign(@, key, ~Get(@, key, FALSE))])

\* GameState.setVar(key, value).
SetVar(key, value) == Written([store EXCEPT !.vars = Assign(@, key, value)])

\* GameState.addVar(key, amount): (this.vars[key] || 0) + amount.
AddVar(key, amount) ==
    /\ Get(store.vars, key, 0) + amount <= MaxVar
    /\ Written([store EXCEPT !.vars = Assign(@, key, Get(@, key, 0) + amount)])

\* GameState.addItem(name, amount).
AddItem(name, amount) ==
    /\ \A i \in FindItem(store.inventory, name) : store.inventory[i].amount + amount <= MaxAmount
    /\ Written(addItem(store, name, amount))

\* GameState.removeItem(name, amount).
RemoveItem(name, amount) == Written(removeItem(store, name, amount))

\* deserialize(serialize()) on the state as it is.
RoundTrip ==
    /\ ~restored
    /\ store' = deserialize(store, serialize(store))
    /\ restored' = TRUE
    /\ UNCHANGED <<runnerVars, gameVars, engineVars, loopVars, histVars, tickVars, inputVars, combatVars>>

StoreNext ==
    \/ \E key \in FlagKeys, value \in BOOLEAN : SetFlag(key, value)
    \/ \E key \in FlagKeys : ToggleFlag(key)
    \/ \E key \in VarKeys, value \in 0..MaxVar : SetVar(key, value)
    \/ \E key \in VarKeys : AddVar(key, 1)
    \/ \E name \in ItemNames : AddItem(name, 1)
    \/ \E name \in ItemNames : RemoveItem(name, 1)
    \/ RoundTrip

StoreSpec == Init /\ [][StoreNext]_allVars

\* ------------------------------------------------------- Engine._updatePlay
\* What one tick finds: the keys that are down or were pressed, where the
\* player stands (touched by an enemy, the attack hitbox on an enemy whose
\* health it uses up, newly inside an on_enter trigger or a door, inside an
\* on_interact trigger, near an NPC without or with a script, on an item) and
\* the timers that run out in it.  The timers count down by dt (1/60 s in the
\* engine); the model keeps which of them are above 0 and lets the tick's
\* input say when they run out: "shortOver" for those of 0.15 s (attack
\* hitbox, knockback), "longOver" for every timer of the combat and trigger
\* systems (0.3 s to 1 s), "fadeOver" for the screen transition's.
Keys == {"move", "KeyJ", "Space", "Escape"}
Happenings == {"touch1", "touch2", "hit1", "hit2", "zone", "door", "interactZone",
               "npcTalk", "npcScript", "gold", "heart", "shortOver", "longOver", "fadeOver"}
Events == Keys \cup Happenings

RECURSIVE UpTo(_)
UpTo(k) == IF k = 0 THEN {{}} ELSE {S \cup {e} : S \in UpTo(k - 1), e \in Events} \cup {{}}
TickInputs == UpTo(MaxEvents)

\* The scripts placed in the editor: of the on_enter trigger, of the
\* on_interact trigger, of the NPC, of the enemies; the door's target.
ZoneScript == <<LockInput, Wait1>>
InteractScript == <<SetFlagF>>
NpcScript == <<Wait1>>
OnDefeat(e) == IF e = "enemy1" THEN <<SetScore5>> ELSE <<>>
DoorScript == <<[type |-> "teleport", spawnId |-> "west_path"]>>
\* properties.damage of the enemies: the default and a deadly one.
EnemyDamage(e) == IF e = "enemy1" THEN 1 ELSE 6
NpcLine == "Hello"

\* The engine and its systems as one record, for the length of a tick.
\* `fits` turns false when a script no longer fits the bound on the actions.
TickState ==
    State @@ [ mode |-> mode, isDead |-> isDead, timers |-> timers,
               cooldowns |-> cooldowns, moving |-> moving, fade |-> fade,
               nextId |-> nextId, enqueued |-> enqueued, appended |-> appended,
               resets |-> resets, log |-> <<>>, fits |-> TRUE,
               npcScript |-> NpcScript, clk |-> clk, health |-> health,
               swing |-> swing ]

\* JavaScript evaluates the statements of a method one after the other, each
\* once: F applied to the value of v.
Then(v, F(_)) == CHOOSE r \in {F(x) : x \in {v}} : TRUE

\* The history of the tick: a system is called, accepts or ignores a command
\* of the player, submits a script or writes a key of the game state or the
\* dialog text; with the interpreter's running and inputLocked at that point.
Note(t, sys, ev, what) ==
    [t EXCEPT !.log = Append(@, [sys |-> sys, ev |-> ev, what |-> what,
                                 running |-> t.running, locked |-> t.inputLocked])]

\* this.engine.actionRunner.run(actions, src), made by a system.
Submit(t, sys, actions, src) ==
    IF t.nextId + Len(actions) - 1 > MaxActions THEN [t EXCEPT !.fits = FALSE]
    ELSE LET ids == [i \in 1..Len(actions) |-> t.nextId + i - 1]
             n == Note(t, sys, "run", "script")
         IN  [run(n, actions, src, ids) EXCEPT
                 !.nextId = @ + Len(actions),
                 !.enqueued = @ \o actions,
                 !.appended = IF t.running THEN @ \cup Range(ids) ELSE @]

\* A write of a system to the game state.
Write(t, sys, key) == Note(t, sys, "write", key)

\* Engine.onPlayerDeath.
onPlayerDeath(t) == IF t.isDead THEN t ELSE [t EXCEPT !.isDead = TRUE, !.fade = "death"]

\* The midpoint callback of Engine._respawn.
respawnMidpoint(t) ==
    IF t.resets >= MaxResets THEN [t EXCEPT !.fits = FALSE]
    ELSE [t EXCEPT !.isDead = FALSE, !.timers = {}, !.cooldowns = {},
                   !.vars = Put(@, "hp", getVar(t, "maxHp", 6)),
                   !.player = SpawnPos("default"), !.moving = FALSE,
                   !.worldGen = @ + 1, !.active = AllActive,
                   !.camera = [@ EXCEPT !.target = "player"],
                   !.dialogText = Null, !.resets = @ + 1,
                   !.clk = NoClocks, !.health = Spawned, !.swing = NoHits]

\* Engine._returnToEditor: setMode('edit').
_returnToEditor(t) ==
    [t EXCEPT !.mode = "edit", !.camera = [@ EXCEPT !.target = Null, !.panTarget = <<>>],
              !.fade = "none", !.player = NoPlayer, !.moving = FALSE,
              !.dialogText = Null, !.isDead = FALSE, !.active = NoneActive]

\* ScreenTransition.update(dt).
ScreenTransition_update(t, E) ==
    IF "fadeOver" \notin E THEN t
    ELSE CASE t.fade = "fade_out" -> [respawnMidpoint(t) EXCEPT !.fade = "fade_in"]
           [] t.fade = "fade_in" -> [t EXCEPT !.fade = "none"]
           [] t.fade = "death" -> [t EXCEPT !.fade = "deathReady"]
           [] OTHER -> t

\* The death screen: Space once the prompt shows starts the respawn fade.
deathScreen(t, E) ==
    LET d == Note(t, "engine", "dead", "screen")
        a == IF d.fade = "deathReady" /\ "Space" \in E THEN [d EXCEPT !.fade = "fade_out"]
             ELSE d
    IN  IF "Escape" \in E THEN _returnToEditor(a) ELSE a

\* CombatSystem.damagePlayer(damage, source).
damagePlayer(t, damage) ==
    IF "invincible" \in t.timers THEN t
    ELSE LET defense == getVar(t, "defense", 0)
             actualDamage == IF damage - defense > 1 THEN damage - defense ELSE 1
             currentHP == getVar(t, "hp", 6)
             newHP == IF currentHP - actualDamage > 0 THEN currentHP - actualDamage ELSE 0
         IN  Then([setVar(Write(t, "combat", "hp"), "hp", newHP) EXCEPT
                      !.timers = @ \cup {"invincible", "knockback"}],
                  LAMBDA k : IF newHP <= 0 THEN onPlayerDeath(k) ELSE k)

\* CombatSystem.healPlayer(amount).
healPlayer(t, sys, amount) ==
    LET maxHP == getVar(t, "maxHp", 6)
        currentHP == getVar(t, "hp", 6)
    IN  setVar(Write(t, sys, "hp"), "hp", Min(maxHP, currentHP + amount))

\* CombatSystem._defeatEnemy(enemy).
_defeatEnemy(t, e) ==
    LET a == [t EXCEPT !.active = [@ EXCEPT ![e] = FALSE]]
        xpReward == EnemyDamage(e) * 2 + 1
    IN  Then(IF Len(OnDefeat(e)) > 0
             THEN Submit(a, "combat", OnDefeat(e), [id |-> e, gen |-> t.worldGen])
             ELSE a,
        LAMBDA b : Then(addVar(Write(b, "combat", "xp"), "xp", xpReward),
        LAMBDA c : addVar(Write(c, "combat", "score"), "score", xpReward * 5)))

\* CombatSystem._checkAttackHits, for the enemies whose health the hit uses up.
Hit(t, E, ev, e) == IF ev \in E /\ t.active[e] THEN _defeatEnemy(t, e) ELSE t
_checkAttackHits(t, E) ==
    Then(Hit(t, E, "hit1", "enemy1"), LAMBDA h : Hit(h, E, "hit2", "enemy2"))

\* CombatSystem._checkContactDamage: one hit per tick.
_checkContactDamage(t, E) ==
    IF "invincible" \in t.timers THEN t
    ELSE IF "touch1" \in E /\ t.active["enemy1"] THEN damagePlayer(t, EnemyDamage("enemy1"))
    ELSE IF "touch2" \in E /\ t.active["enemy2"] THEN damagePlayer(t, EnemyDamage("enemy2"))
    ELSE t

\* The timers still above 0 after `-= dt`.
Left(ts, E) ==
    IF "longOver" \in E THEN {}
    ELSE IF "shortOver" \in E THEN ts \ {"attack", "knockback"}
    ELSE ts

\* CombatSystem.update(dt).
CombatSystem_update(t, E) ==
    LET c == Note(t, "combat", "call", "update")
    IN  IF c.player = NoPlayer THEN c
        ELSE LET timed == [c EXCEPT !.timers = Left(@, E)]
             IN  Then(IF "attack" \in timed.timers THEN _checkAttackHits(timed, E)
                      ELSE timed,
                      LAMBDA hits : _checkContactDamage(hits, E))

\* CombatSystem.tryAttack().
tryAttack(t) ==
    IF t.timers \cap {"attack", "cooldown"} # {} THEN t
    ELSE IF t.running \/ t.inputLocked THEN Note(t, "input", "ignore", "attack")
    ELSE IF t.player = NoPlayer THEN t
    ELSE [Note(t, "input", "accept", "attack") EXCEPT !.timers = @ \cup {"attack", "cooldown"}]

\* A player that moves whatever the scripts have locked.
playerCanMoveUnlocked(t) == t.player # NoPlayer /\ "knockback" \notin t.timers

\* const playerCanMove (Engine.js:483-485).
playerCanMove(t) == t.player # NoPlayer /\ ~t.inputLocked /\ "knockback" \notin t.timers

\* The player-input part of the tick; Player.handleInput sets the velocity
\* from the movement keys.
playerInput(t, E) ==
    LET p == Note(t, "input", "call", "update")
    IN  IF playerCanMove(p)
        THEN LET m == IF "move" \in E
                      THEN [Note(p, "input", "accept", "move") EXCEPT !.moving = TRUE]
                      ELSE [p EXCEPT !.moving = FALSE]
             IN  IF "KeyJ" \in E THEN tryAttack(m) ELSE m
        ELSE LET i == IF "move" \in E THEN Note(p, "input", "ignore", "move") ELSE p
                 j == IF "KeyJ" \in E THEN Note(i, "input", "ignore", "attack") ELSE i
             IN  IF j.player # NoPlayer /\ "knockback" \notin j.timers
                 THEN [j EXCEPT !.moving = FALSE]
                 ELSE j

\* TriggerSystem._fire(trigger).
_fire(t, sys, id, script) ==
    IF id \in t.cooldowns THEN t
    ELSE [Submit(t, sys, script, NoEntity) EXCEPT !.cooldowns = @ \cup {id}]

\* The item pickup of TriggerSystem.update.
pickup(t, E, ev, name, heals) ==
    IF ev \notin E THEN t
    ELSE Then(addItem(Write(t, "trigger", "inventory"), name, 1),
         LAMBDA a : Then(addVar(Write(a, "trigger", "score"), "score", 1),
         LAMBDA b : IF heals THEN healPlayer(b, "trigger", 2) ELSE b))

\* TriggerSystem.update(dt).
TriggerSystem_update(t, E) ==
    LET g == Note(t, "trigger", "call", "update")
    IN  IF g.player = NoPlayer \/ g.running THEN g
        ELSE LET cooled == [g EXCEPT !.cooldowns = IF "longOver" \in E THEN {} ELSE @]
             IN  Then(IF "zone" \in E THEN _fire(cooled, "trigger", "zone", ZoneScript)
                      ELSE cooled,
                 LAMBDA zone :
                 Then(IF "door" \in E THEN Submit(zone, "trigger", DoorScript, NoEntity)
                      ELSE zone,
                 LAMBDA door : Then(pickup(door, E, "gold", "Gold", FALSE),
                 LAMBDA gold : pickup(gold, E, "heart", "Heart", TRUE))))

\* TriggerSystem.handleInteract() finds an on_interact trigger.
handledByTrigger(t, E) == t.player # NoPlayer /\ ~t.running /\ "interactZone" \in E

\* The NPC interaction of the tick (Space or E).
npcInteraction(t, E) ==
    IF ~t.running /\ ~t.inputLocked /\ "Space" \in E
    THEN IF handledByTrigger(t, E)
         THEN _fire(Note(t, "interact", "accept", "trigger"), "interact", "interact",
                    InteractScript)
         ELSE IF "npcScript" \in E
         THEN Submit(Note(t, "interact", "accept", "npc"), "interact", t.npcScript,
                     NoEntity)
         ELSE IF "npcTalk" \in E
         THEN [Write(Note(t, "interact", "accept", "npc"), "interact", "dialog") EXCEPT
                  !.dialogText = NpcLine, !.dialogTimer = Sec(3)]
         ELSE t
    ELSE IF "Space" \in E THEN Note(t, "interact", "ignore", "interact")
    ELSE t

\* A dialog timeout that leaves the text when the timer reaches exactly 0.
dialogTimeoutBelowZero(t, dt) ==
    IF t.dialogTimer > 0
    THEN [t EXCEPT !.dialogTimer = @ - dt,
                   !.dialogText = IF t.dialogTimer - dt < 0 THEN Null ELSE @]
    ELSE t

\* The dialog timeout of the tick.
dialogTimeout(t, dt) ==
    IF t.dialogTimer > 0
    THEN [t EXCEPT !.dialogTimer = @ - dt,
                   !.dialogText = IF t.dialogTimer - dt <= 0 THEN Null ELSE @]
    ELSE t

\* A tick that checks the triggers before the interpreter has advanced.
_updatePlayTriggersFirst(t, dt, E) ==
    Then(ScreenTransition_update(t, E), LAMBDA t0 :
    IF t0.isDead THEN deathScreen(t0, E)
    ELSE Then(TriggerSystem_update(t0, E), LAMBDA t1 :
         Then(update(Note(t1, "interpreter", "call", "update"), dt), LAMBDA t2 :
         Then(CombatSystem_update(t2, E), LAMBDA t3 :
         Then(playerInput(t3, E), LAMBDA t4 :
         Then(Note(t4, "behavior", "call", "update"), LAMBDA t5 :
         Then(npcInteraction(t5, E), LAMBDA t6 :
         Then(dialogTimeout(t6, dt), LAMBDA t7 :
         IF "Escape" \in E THEN _returnToEditor(t7) ELSE t7))))))))

\* Engine._updatePlay(dt).
_updatePlay(t, dt, E) ==
    Then(ScreenTransition_update(t, E), LAMBDA t0 :
    IF t0.isDead THEN deathScreen(t0, E)
    ELSE Then(update(Note(t0, "interpreter", "call", "update"), dt), LAMBDA t1 :
         Then(CombatSystem_update(t1, E), LAMBDA t2 :
         Then(playerInput(t2, E), LAMBDA t3 :
         Then(Note(t3, "behavior", "call", "update"), LAMBDA t4 :
         Then(TriggerSystem_update(t4, E), LAMBDA t5 :
         Then(npcInteraction(t5, E), LAMBDA t6 :
         Then(dialogTimeout(t6, dt), LAMBDA t7 :
         IF "Escape" \in E THEN _returnToEditor(t7) ELSE t7))))))))

\* The inputs that say something about the state the tick finds: a timer
\* that runs out is a timer that is running, a hit needs the attack hitbox, an
\* enemy that touches or is hit is active, and the death screen reads Space,
\* Escape and its own timer only.
Matters(E) ==
    /\ "fadeOver" \in E => fade \in {"fade_out", "fade_in", "death"}
    /\ "shortOver" \in E => timers \cap {"attack", "knockback"} # {} /\ "longOver" \notin E
    /\ "longOver" \in E => timers \cup cooldowns # {}
    /\ E \cap {"hit1", "hit2"} # {} => "attack" \in timers
    /\ E \cap {"hit1", "touch1"} # {} => active["enemy1"]
    /\ E \cap {"hit2", "touch2"} # {} => active["enemy2"]
    /\ (isDead /\ ~(fade = "fade_out" /\ "fadeOver" \in E)) =>
            E \subseteq {"Space", "Escape", "fadeOver"}

\* The engine's simulation step: one time quantum.
StepDt == 1

\* What Engine._update(dt) does in play mode to the engine ts, the tick
\* finding E.
TickFrom(ts, dt, E) ==
    /\ mode = "play"
    /\ Matters(E)
    /\ \E t \in {_updatePlay(ts, dt, E)} :
           /\ t.fits
           /\ Commit(t)
           /\ mode' = t.mode /\ isDead' = t.isDead /\ worldGen' = t.worldGen
           /\ timers' = t.timers /\ cooldowns' = t.cooldowns
           /\ moving' = t.moving /\ fade' = t.fade
           /\ nextId' = t.nextId /\ enqueued' = t.enqueued /\ appended' = t.appended
           /\ resets' = t.resets
           /\ clk' = t.clk /\ health' = t.health /\ swing' = t.swing
           /\ tickLog' = t.log
           /\ lastCall' = Call("tick", <<>>, NoEntity, dt, t.outcome)
    /\ ticks' = ticks + 1

TickEffects(dt, E) == TickFrom(TickState, dt, E)

\* One simulation tick of play mode: GameLoop calls Engine._update(dt).
UpdatePlay(dt, E) ==
    /\ ticks < MaxTicks
    /\ TickEffects(dt, E)
    /\ UNCHANGED <<loopVars, storeVars, inputVars>>

\* ------------------------------------------- the collaborators' timers
\* The same tick with the timers of CombatSystem and TriggerSystem counted
\* in clock units, in a world of enemies of 3 health.  The tick's input says
\* where the player stands and what is pressed; the timers run out when
\* they have counted down.
Dec(v) == IF v > 0 THEN v - TickUnits ELSE v

\* for (const [id, time] of map) { remaining = time - dt; delete or set }.
Cool(m) ==
    LET left == {k \in DOMAIN m : m[k] - TickUnits > 0}
    IN  [k \in left |-> m[k] - TickUnits]

\* CombatSystem.damagePlayer(damage, source).
damagePlayerTimed(t, damage) ==
    IF t.clk.invincible > 0 THEN t
    ELSE LET defense == getVar(t, "defense", 0)
             actualDamage == IF damage - defense > 1 THEN damage - defense ELSE 1
             currentHP == getVar(t, "hp", 6)
             newHP == IF currentHP - actualDamage > 0 THEN currentHP - actualDamage ELSE 0
         IN  Then([setVar(Write(t, "combat", "hp"), "hp", newHP) EXCEPT
                      !.clk = [@ EXCEPT !.invincible = playerInvincibleTime,
                                        !.knockback = knockbackDuration]],
                  LAMBDA k : IF newHP <= 0 THEN onPlayerDeath(k) ELSE k)

\* CombatSystem._damageEnemy(enemy, damage).
_damageEnemyTimed(t, e, damage) ==
    Then([t EXCEPT !.health = [@ EXCEPT ![e] = @ - damage],
                   !.clk = [@ EXCEPT !.flash = Put(@, e, enemyFlashTime)],
                   !.swing = [@ EXCEPT ![e] = @ + 1]],
         LAMBDA d : IF d.health[e] <= 0 THEN _defeatEnemy(d, e) ELSE d)

\* CombatSystem._checkAttackHits(): the enemies the hitbox overlaps.
HitTimed(t, E, ev, e) ==
    IF ~t.active[e] THEN t
    ELSE IF e \in DOMAIN t.clk.flash /\ t.clk.flash[e] > sameSwingFlash THEN t
    ELSE IF ev \in E THEN _damageEnemyTimed(t, e, getVar(t, "attack", 1))
    ELSE t
_checkAttackHitsTimed(t, E) ==
    Then(HitTimed(t, E, "hit1", "enemy1"), LAMBDA h : HitTimed(h, E, "hit2", "enemy2"))

\* CombatSystem._checkContactDamage(): one hit per tick.
Touches(t, E, ev, e) == ev \in E /\ t.active[e] /\ e \notin DOMAIN t.clk.contact
Contact(t, e) ==
    Then(damagePlayerTimed(t, EnemyDamage(e)), LAMBDA d :
         [d EXCEPT !.clk = [@ EXCEPT !.contact = Put(@, e, contactDamageCooldown)]])
_checkContactDamageTimed(t, E) ==
    IF t.player = NoPlayer \/ t.clk.invincible > 0 THEN t
    ELSE IF Touches(t, E, "touch1", "enemy1") THEN Contact(t, "enemy1")
    ELSE IF Touches(t, E, "touch2", "enemy2") THEN Contact(t, "enemy2")
    ELSE t

\* CombatSystem.update(dt).
CombatSystem_updateTimed(t, E) ==
    LET c == Note(t, "combat", "call", "update")
    IN  IF c.player = NoPlayer THEN c
        ELSE Then([c EXCEPT !.clk = [@ EXCEPT
                       !.attack = Dec(@), !.cooldown = Dec(@), !.invincible = Dec(@),
                       !.knockback = IF @ - TickUnits > 0 THEN @ - TickUnits ELSE 0,
                       !.flash = Cool(@), !.contact = Cool(@)]],
             LAMBDA timed :
             Then(IF timed.clk.attack > 0 THEN _checkAttackHitsTimed(timed, E) ELSE timed,
             LAMBDA hits : _checkContactDamageTimed(hits, E)))

\* CombatSystem.tryAttack().
tryAttackTimed(t) ==
    IF t.clk.cooldown > 0 \/ t.clk.attack > 0 THEN t
    ELSE IF t.running \/ t.inputLocked THEN Note(t, "input", "ignore", "attack")
    ELSE IF t.player = NoPlayer THEN t
    ELSE [Note(t, "input", "accept", "attack") EXCEPT
             !.clk = [@ EXCEPT !.attack = attackDuration, !.cooldown = attackCooldownTime],
             !.swing = NoHits]

\* The player-input part of the tick.
playerInputTimed(t, E) ==
    LET p == Note(t, "input", "call", "update")
    IN  IF p.player # NoPlayer /\ ~p.inputLocked /\ p.clk.knockback = 0
        THEN LET m == IF "move" \in E
                      THEN [Note(p, "input", "accept", "move") EXCEPT !.moving = TRUE]
                      ELSE [p EXCEPT !.moving = FALSE]
             IN  IF "KeyJ" \in E THEN tryAttackTimed(m) ELSE m
        ELSE LET i == IF "move" \in E THEN Note(p, "input", "ignore", "move") ELSE p
                 j == IF "KeyJ" \in E THEN Note(i, "input", "ignore", "attack") ELSE i
             IN  IF j.player # NoPlayer /\ j.clk.knockback = 0
                 THEN [j EXCEPT !.moving = FALSE]
                 ELSE j

\* TriggerSystem._fire(trigger).
_fireTimed(t, sys, id, script) ==
    IF id \in DOMAIN t.clk.trigger THEN t
    ELSE [Submit(t, sys, script, NoEntity) EXCEPT
             !.clk = [@ EXCEPT !.trigger = Put(@, id, triggerCooldown)]]

\* TriggerSystem.update(dt).
TriggerSystem_updateTimed(t, E) ==
    LET g == Note(t, "trigger", "call", "update")
    IN  IF g.player = NoPlayer \/ g.running THEN g
        ELSE Then([g EXCEPT !.clk = [@ EXCEPT !.trigger = Cool(@)]], LAMBDA cooled :
             Then(IF "zone" \in E THEN _fireTimed(cooled, "trigger", "zone", ZoneScript)
                  ELSE cooled,
             LAMBDA zone :
             Then(IF "door" \in E THEN Submit(zone, "trigger", DoorScript, NoEntity)
                  ELSE zone,
             LAMBDA door : Then(pickup(door, E, "gold", "Gold", FALSE),
             LAMBDA gold : pickup(gold, E, "heart", "Heart", TRUE)))))

\* Engine._updatePlay(dt).
_updatePlayTimed(t, dt, E) ==
    Then(ScreenTransition_update(t, E), LAMBDA t0 :
    IF t0.isDead THEN deathScreen(t0, E)
    ELSE Then(update(Note(t0, "interpreter", "call", "update"), dt), LAMBDA t1 :
         Then(CombatSystem_updateTimed(t1, E), LAMBDA t2 :
         Then(playerInputTimed(t2, E), LAMBDA t3 :
         Then(Note(t3, "behavior", "call", "update"), LAMBDA t4 :
         Then(TriggerSystem_updateTimed(t4, E), LAMBDA t5 :
         Then(npcInteraction(t5, E), LAMBDA t6 :
         Then(dialogTimeout(t6, dt), LAMBDA t7 :
         IF "Escape" \in E THEN _returnToEditor(t7) ELSE t7))))))))

\* What the player does and where the player stands in a tick of a fight
\* next to a trigger zone.
CombatInputs == SUBSET {"KeyJ", "hit1", "touch1", "zone"}

\* One simulation tick of play mode, the timers counted.
CombatTick ==
    \E E \in CombatInputs :
        /\ ticks < MaxCombatTicks
        /\ mode = "play"
        /\ E \cap {"hit1", "touch1"} # {} => active["enemy1"]
        /\ \E t \in {_updatePlayTimed(TickState, StepDt, E)} :
               /\ t.fits
               /\ Commit(t)
               /\ mode' = t.mode /\ isDead' = t.isDead /\ worldGen' = t.worldGen
               /\ timers' = t.timers /\ cooldowns' = t.cooldowns
               /\ moving' = t.moving /\ fade' = t.fade
               /\ nextId' = t.nextId /\ enqueued' = t.enqueued /\ appended' = t.appended
               /\ resets' = t.resets
               /\ clk' = t.clk /\ health' = t.health /\ swing' = t.swing
               /\ tickLog' = t.log
               /\ lastCall' = Call("tick", <<>>, NoEntity, StepDt, t.outcome)
        /\ ticks' = ticks + 1
        /\ UNCHANGED <<loopVars, storeVars, inputVars>>

\* ----------------------------------------------------------------- GameLoop
\* fixedDt is the double nearest to 1/60, which lies below 1/60:
\* 0.25 - 15 * fixedDt is exactly one unit in the last place of fixedDt
\* (2^-58 s), and 1 s is four times 0.25 s.
FixedDt == SubSteps
ClampExcess == 1
MaxFrameTime == 15 * FixedDt + ClampExcess
OneSecond == 4 * MaxFrameTime

\* What the wall clock can have advanced by when a frame callback runs:
\* nothing, less than a step, a step, a step and a bit, exactly and just over
\* the clamp, ten seconds.
FrameDeltas == {0, 1, FixedDt - 1, FixedDt, FixedDt + 1, MaxFrameTime, MaxFrameTime + 1,
                10 * OneSecond}

\* if (frameTime > 0.25) frameTime = 0.25
Clamp(frameTime) == IF frameTime > MaxFrameTime THEN MaxFrameTime ELSE frameTime

nonLoopVars == <<runnerVars, gameVars, engineVars, histVars, tickVars, storeVars>>

\* requestAnimationFrame: a new callback is pending, its id is returned.
Request == lastRafId' = lastRafId + 1 /\ pendingFrames' = pendingFrames \cup {lastRafId + 1}

\* JavaScript runs a callback to completion: start() and stop() are called
\* between two frame callbacks, or from inside an update or a render call of
\* the frame callback that is executing.
CallerRuns == pc \in {"idle", "update", "post"}

\* GameLoop.start().
Start ==
    /\ CallerRuns
    /\ ~loopRunning
    /\ lastRafId < MaxFrames
    /\ loopRunning' = TRUE
    /\ lastTime' = clock
    /\ accumulator' = 0
    /\ Request /\ rafId' = lastRafId + 1
    /\ halted' = FALSE
    /\ UNCHANGED <<frameCount, fpsTimer, fps, clock, pc, frames, rawFrameTime, steps,
                   frameLog, rafAtBegin, nonLoopVars, inputVars, combatVars>>

\* GameLoop.stop(); cancelAnimationFrame of a callback that has run is a no-op.
Stop ==
    /\ CallerRuns
    /\ loopRunning' = FALSE
    /\ rafId' = 0
    /\ pendingFrames' = IF rafId # 0 THEN pendingFrames \ {rafId} ELSE pendingFrames
    /\ UNCHANGED <<accumulator, lastTime, frameCount, fpsTimer, fps, clock, lastRafId, pc,
                   frames, rawFrameTime, steps, frameLog, rafAtBegin, halted, nonLoopVars, inputVars, combatVars>>

\* The browser runs a pending frame callback: GameLoop._tick up to the loop.
FrameBegin(id, delta) ==
    /\ pc = "idle" /\ id \in pendingFrames
    /\ frames < MaxFrames
    /\ frames' = frames + 1
    /\ clock' = clock + delta
    /\ pendingFrames' = pendingFrames \ {id}
    /\ IF ~loopRunning
       THEN UNCHANGED <<lastTime, accumulator, pc, rawFrameTime, steps, frameLog,
                        rafAtBegin, halted>>
       ELSE /\ lastTime' = clock'
            /\ rawFrameTime' = clock' - lastTime
            /\ accumulator' = accumulator + Clamp(clock' - lastTime)
            /\ steps' = 0
            /\ frameLog' = <<>>
            /\ rafAtBegin' = lastRafId
            /\ halted' = FALSE
            /\ pc' = "sim"
    /\ UNCHANGED <<loopRunning, rafId, frameCount, fpsTimer, fps, lastRafId, nonLoopVars, inputVars, combatVars>>

\* One turn of `while (this.accumulator >= this.fixedDt)`: this.update(fixedDt)
\* is called.
UpdateCalled ==
    /\ pc = "sim" /\ accumulator >= FixedDt
    /\ pc' = "update"
    /\ steps' = steps + 1
    /\ frameLog' = Append(frameLog, "update")
    /\ UNCHANGED <<loopRunning, rafId, accumulator, lastTime, frameCount, fpsTimer, fps,
                   clock, pendingFrames, lastRafId, frames, rawFrameTime, rafAtBegin,
                   halted>>

\* The same with a callback that leaves the engine as it is.
UpdateCall == UpdateCalled /\ UNCHANGED <<nonLoopVars, inputVars, combatVars>>

\* update has returned: this.accumulator -= this.fixedDt, on the accumulator
\* the callback has left.
SimStep ==
    /\ pc = "update"
    /\ pc' = "sim"
    /\ accumulator' = accumulator - FixedDt
    /\ UNCHANGED <<loopRunning, rafId, lastTime, frameCount, fpsTimer, fps, clock,
                   pendingFrames, lastRafId, frames, rawFrameTime, steps, frameLog,
                   rafAtBegin, halted, nonLoopVars, inputVars, combatVars>>

\* A render that does not wait for the simulation steps.
RenderEarly ==
    /\ pc = "sim"
    /\ pc' = "post"
    /\ frameLog' = Append(frameLog, "render")
    /\ UNCHANGED <<loopRunning, rafId, accumulator, lastTime, frameCount, fpsTimer, fps,
                   clock, pendingFrames, lastRafId, frames, rawFrameTime, steps,
                   rafAtBegin, halted, nonLoopVars, inputVars, combatVars>>

\* The loop is over: this.render(alpha) is called.
RenderCalled ==
    /\ pc = "sim" /\ accumulator < FixedDt
    /\ pc' = "post"
    /\ frameLog' = Append(frameLog, "render")
    /\ UNCHANGED <<loopRunning, rafId, accumulator, lastTime, frameCount, fpsTimer, fps,
                   clock, pendingFrames, lastRafId, frames, rawFrameTime, steps,
                   rafAtBegin, halted>>

\* The same with a callback that leaves the engine as it is.
Render == RenderCalled /\ UNCHANGED <<nonLoopVars, inputVars, combatVars>>

\* The rest of _tick: the FPS counter and the request of the next frame.
FrameEnd ==
    /\ pc = "post"
    /\ pc' = "idle"
    /\ LET ft == Clamp(rawFrameTime)
       IN  IF fpsTimer + ft >= OneSecond
           THEN fps' = frameCount + 1 /\ frameCount' = 0 /\ fpsTimer' = fpsTimer + ft - OneSecond
           ELSE fps' = fps /\ frameCount' = frameCount + 1 /\ fpsTimer' = fpsTimer + ft
    /\ Request /\ rafId' = lastRafId + 1
    /\ frameLog' = Append(frameLog, "request")
    /\ UNCHANGED <<loopRunning, accumulator, lastTime, clock, frames, rawFrameTime, steps,
                   rafAtBegin, halted, nonLoopVars, inputVars, combatVars>>

\* The exception leaves _tick: nothing after the throwing call is executed.
Thrown ==
    /\ pc' = "idle"
    /\ frameLog' = Append(frameLog, "throw")
    /\ halted' = TRUE
    /\ UNCHANGED <<loopRunning, rafId, accumulator, lastTime, frameCount, fpsTimer, fps,
                   clock, pendingFrames, lastRafId, frames, rawFrameTime, steps,
                   rafAtBegin, nonLoopVars, inputVars, combatVars>>

\* this.update(this.fixedDt) throws.
UpdateThrows == pc = "update" /\ Thrown

\* this.render(alpha) throws.
RenderThrows == pc = "sim" /\ accumulator < FixedDt /\ Thrown

\* -------------------------------------------------------------------- Input
\* The frame times of a display that runs at about the simulation rate: less
\* than a step, a step, two steps.
KeyFrameDeltas == {1, FixedDt, 2 * FixedDt}

\* The keydown listener (no key repeat), run between two frame callbacks.
KeyDown ==
    /\ pc = "idle" /\ loopRunning /\ mode = "play"
    /\ Len(seen) < MaxPresses
    /\ keysPressed' = keysPressed \cup {"Space"}
    /\ fresh' = fresh \cup {Len(seen) + 1}
    /\ seen' = Append(seen, 0)
    /\ UNCHANGED <<started, loopVars, nonLoopVars, combatVars>>

\* The interactions a tick has accepted.
Accepted(log) ==
    Len(SelectSeq(log, LAMBDA e : e.sys = "interact" /\ e.ev = "accept"))

\* The update callback of the engine's loop: Engine._update(dt) in play mode,
\* the player standing next to an NPC without a script; keyPressed answers
\* from Input._keysPressed.
EngineStep ==
    /\ UpdateCalled
    /\ TickEffects(StepDt, keysPressed \cup {"npcTalk"})
    /\ seen' = [i \in DOMAIN seen |-> IF i \in fresh THEN seen[i] + 1 ELSE seen[i]]
    /\ started' = started + Accepted(tickLog')
    /\ UNCHANGED <<keysPressed, fresh, storeVars>>

\* Input.endFrame().
endFrame == keysPressed' = {} /\ fresh' = {}

\* The render callback of the engine's loop: Engine._render(alpha), which ends
\* with this.input.endFrame().
EngineRender ==
    /\ RenderCalled
    /\ endFrame
    /\ UNCHANGED <<seen, started, nonLoopVars, combatVars>>

\* ------------------------------------------------------------ specifications
ListsOver(pool, n) == UNION {[1..k -> pool] : k \in 1..n}
SourceOf(e) == IF e = Null THEN NoEntity ELSE [id |-> e, gen |-> worldGen]

RunCore ==
    \E actions \in ListsOver(CorePool, MaxActions - nextId + 1), e \in Entities \cup {Null} :
        Run(actions, SourceOf(e))

Tick == \E dt \in Dts : Update(dt)

\* The editor's Play button, the first time: the interpreter is only ever
\* called in play mode.
EnterPlay == resets = 0 /\ SetModePlay

\* The interpreter's interface: run and update, in any order.
Next ==
    \/ RunCore
    \/ Tick
    \/ EnterPlay

Spec == Init /\ [][Next]_allVars

\* The interpreter inside the engine: mode changes, death and respawn too.
EngineNext ==
    \/ RunCore
    \/ Tick
    \/ SetModePlay
    \/ SetModeEdit
    \/ PlayerDeath
    \/ Respawn

EngineSpec == Init /\ [][EngineNext]_allVars

\* Scripts around the gate actions.
RunGate ==
    \E actions \in ListsOver(GatePool, MaxActions - nextId + 1) : Run(actions, NoEntity)

GateNext == RunGate \/ Tick \/ EnterPlay

GateSpec == Init /\ [][GateNext]_allVars

\* Scripts with actions that find nothing to act on.
RunInert ==
    \E actions \in ListsOver(InertPool, MaxActions - nextId + 1), e \in {Null, "enemy1"} :
        Run(actions, SourceOf(e))

InertNext == RunInert \/ Tick \/ EnterPlay

InertSpec == Init /\ [][InertNext]_allVars

\* Single-action scripts of every kind and parameter shape.
\* The source entity is read by remove_entity alone (ActionRunner.js:174-179).
KindSources(a) ==
    IF Has(a, "type") /\ a.type = "remove_entity" THEN {Null, "enemy1"} ELSE {Null}

RunKind ==
    \E a \in AllActions :
        \E e \in KindSources(a) :
            /\ nextId <= MaxKindRuns
            /\ Run(<<a>>, SourceOf(e))

KindNext == RunKind \/ Tick \/ EnterPlay

KindSpec == Init /\ [][KindNext]_allVars

\* Single-action scripts as the script editor writes them.
RunType ==
    \E a \in EditorActions :
        \E e \in KindSources(a) :
            /\ nextId <= MaxKindRuns
            /\ Run(<<a>>, SourceOf(e))

TypesNext == RunType \/ Tick \/ EnterPlay

TypesSpec == Init /\ [][TypesNext]_allVars

\* The engine calls update in every simulation tick of play mode.
LiveSpec == Init /\ [][KindNext]_allVars /\ WF_allVars(Tick)

LoopNext ==
    \/ Start
    \/ Stop
    \/ \E id \in pendingFrames, delta \in FrameDeltas : FrameBegin(id, delta)
    \/ UpdateCall
    \/ SimStep
    \/ Render
    \/ FrameEnd

LoopSpec == Init /\ [][LoopNext]_allVars

\* The loop with callbacks that can throw.
ThrowNext ==
    \/ LoopNext
    \/ UpdateThrows
    \/ RenderThrows

ThrowSpec == Init /\ [][ThrowNext]_allVars

\* The engine's loop in play mode with a player who presses Space.
InputNext ==
    \/ EnterPlay
    \/ mode = "play" /\ pc = "idle" /\ Start
    \/ KeyDown
    \/ \E id \in pendingFrames, delta \in KeyFrameDeltas : FrameBegin(id, delta)
    \/ EngineStep
    \/ SimStep
    \/ EngineRender
    \/ FrameEnd

InputSpec == Init /\ [][InputNext]_allVars

\* Play mode with the timers counted: a fight next to a trigger zone.
CombatNext == EnterPlay \/ CombatTick

CombatSpec == Init /\ [][CombatNext]_allVars

\* Play mode with NPCs whose scripts show dialogs; an enemy that kills.
DialogPool == {ShowHi, ShowBye1, GiveGold, SetFlagF}
DialogScripts ==
    ListsOver(DialogPool, 2) \cup {<<ShowBye1, ShowHi, SetFlagF>>, NpcScript}
DialogInputs == {{}, {"Space", "npcScript"}, {"Space", "npcTalk"}, {"touch2"},
                 {"fadeOver"}, {"Space"}}

DialogTick ==
    \E E \in DialogInputs, script \in DialogScripts :
        /\ ticks < MaxDialogTicks
        /\ "npcScript" \notin E => script = NpcScript
        /\ TickFrom([TickState EXCEPT !.npcScript = script], StepDt, E)
        /\ UNCHANGED <<loopVars, storeVars, inputVars>>

DialogNext == SetModePlay \/ DialogTick

DialogSpec == Init /\ [][DialogNext]_allVars

\* Play mode: the editor's Play button and the simulation ticks.
PlayTick == \E E \in TickInputs : UpdatePlay(StepDt, E)

PlayNext == SetModePlay \/ PlayTick

PlaySpec == Init /\ [][PlayNext]_allVars

\* ------------------------------------------------------------------- claims
Increasing(q) == \A i, j \in 1..Len(q) : i < j => q[i] < q[j]
Last(q) == q[Len(q)]
\* The ids the last call executed.
ExecutedNow == SubSeq(executed, lastCall.base + 1, Len(executed))

\* C1: actions execute in the order they were enqueued (ids are handed out in
\* enqueue order): the execution log is in increasing id order, the queue is in
\* increasing id order, and everything still queued was enqueued after
\* everything that has executed.
OrderPreserved ==
    /\ Increasing(executed)
    /\ Increasing(qids)
    /\ \A a \in Range(executed), b \in Range(qids) : a < b

\* C1 witness: [A, B] was submitted, [C] was appended while A had the script
\* suspended, and one update has executed B and then C.
OrderWitness ==
    /\ executed = <<1, 2, 3>>
    /\ appended = {3}
    /\ lastCall.op = "update" /\ lastCall.base = 1

\* C2: a run made while running only appends: queue' is the queue followed
\* by the list, nothing executes, nothing is discarded, and running,
\* waitTimer, inputLocked, sourceEntity, the game state and the engine fields
\* are unchanged.
AppendOnly ==
    [][(lastCall'.op = "run" /\ running) =>
          /\ queue' = queue \o lastCall'.actions
          /\ Len(qids') = Len(queue')
          /\ executed' = executed
          /\ discarded' = discarded
          /\ UNCHANGED <<running, waitTimer, inputLocked, sourceEntity>>
          /\ UNCHANGED <<gameVars, engineVars>>]_allVars

\* C2 witness: a list was appended by a call that passed another source entity
\* than the one the running script is attributed to.
AppendWitness ==
    /\ lastCall.op = "run" /\ lastCall.wasRunning
    /\ lastCall.src # NoEntity /\ sourceEntity # NoEntity
    /\ lastCall.src # sourceEntity

\* The kinds that ask for suspension (ActionRunner.js returns 'wait').
NonSuspending(a) ==
    ~Has(a, "type") \/ a.type \notin {"show_dialog", "wait", "give_item", "camera_pan"}

\* C3: from Idle, a single-action list of a non-suspending kind completes
\* inside the run call: the action has executed, running is false and the
\* queue is empty when the call returns.
SingleActionSynchronous ==
    (/\ lastCall.op = "run" /\ ~lastCall.wasRunning
     /\ Len(lastCall.actions) = 1 /\ NonSuspending(lastCall.actions[1]))
    => /\ ~running /\ queue = <<>>
       /\ Len(ExecutedNow) = 1
       /\ lastCall.outcome \in {"finished", "aborted"}

\* C3 witness: a failing check_item was submitted alone from Idle.
SingleActionWitness ==
    /\ lastCall.op = "run" /\ ~lastCall.wasRunning
    /\ lastCall.actions = <<CheckKey>>
    /\ lastCall.outcome = "aborted"

\* The script is suspended by a wait action that states its seconds.
SuspendedByWait ==
    /\ running /\ pending # <<>>
    /\ Has(pending[1], "type") /\ pending[1].type = "wait"
    /\ Has(pending[1], "seconds")

\* C4: after a wait with seconds s suspended the script, an update that
\* leaves the sum of the dt values below s keeps it suspended, pops nothing and
\* leaves GameState alone; the update at which the sum reaches s resumes the
\* drain from the next queued action (and finishes when there is none).
WaitElapses ==
    [][(lastCall'.op = "update" /\ SuspendedByWait) =>
          IF elapsed + lastCall'.dt < Sec(pending[1].seconds)
          THEN /\ running' /\ pending' = pending
               /\ queue' = queue /\ executed' = executed
               /\ UNCHANGED gameVars
          ELSE /\ lastCall'.outcome # "none"
               /\ queue # <<>> => /\ Len(executed') > Len(executed)
                                  /\ executed'[Len(executed) + 1] = Head(qids)
               /\ queue = <<>> => ~running' /\ waitTimer' = 0]_allVars

\* The value of a flag, the amount held of an item, the value a check_flag
\* expects.
FlagValue(s, f) == f \in DOMAIN s.flags /\ s.flags[f]
Held(s, item) ==
    LET at == {i \in 1..Len(s.inventory) : s.inventory[i].name = item}
    IN  IF at = {} THEN 0 ELSE s.inventory[CHOOSE i \in at : TRUE].amount
Expected(a) == IF Has(a, "expect") THEN a.expect ELSE TRUE
GateFails(a, s) ==
    /\ Has(a, "type")
    /\ \/ a.type = "check_flag" /\ FlagValue(s, a.flag) # Expected(a)
       \/ a.type = "check_item" /\ Held(s, a.item) < a.amount

\* The state after the first k of the actions have executed from s.
RECURSIVE Replay(_, _, _)
Replay(s, acts, k) == IF k = 0 THEN s ELSE _execute(Replay(s, acts, k - 1), acts[k]).st
GameOf(s) == <<s.flags, s.vars, s.inventory>>

\* What one step executed: the ids and the actions.
NewIds == SubSeq(executed', Len(executed) + 1, Len(executed'))
NewActions == [j \in 1..Len(NewIds) |-> enqueued'[NewIds[j]]]

\* A call of run or update: a drain pass stops at the first gate that fails in the state the actions
\* before it have produced: it is the last action the pass executes, GameState
\* and inventory are as they were when it executed, everything enqueued
\* after it is thrown away and the interpreter is Idle.  A pass without a
\* failing gate leaves what its actions produce.
GateStops ==
    /\ \A j \in 1..Len(NewIds) :
          GateFails(NewActions[j], Replay(State, NewActions, j - 1)) =>
             /\ j = Len(NewIds)
             /\ ~running' /\ queue' = <<>>
             /\ GameOf(State') = GameOf(Replay(State, NewActions, j - 1))
             /\ \A id \in (NewIds[j] + 1)..(nextId' - 1) : id \in discarded'
    /\ GameOf(State') = GameOf(Replay(State, NewActions, Len(NewIds)))

\* C5: when a gate fails, no action after it in the list executes, GameState
\* and inventory are unchanged by them, the interpreter is Idle when the pass
\* returns, and a list submitted after the abort executes from its first
\* action.
GateAborts ==
    /\ [][lastCall'.op \in {"run", "update"} => GateStops]_allVars
    /\ [](discarded \cap Range(executed) = {})
    /\ [](lastCall.outcome = "aborted" =>
            ~running /\ queue = <<>> /\ GateFails(enqueued[Last(executed)], State))
    /\ []((lastCall.op = "run" /\ lastCall.prevOutcome = "aborted") =>
            /\ ~lastCall.wasRunning
            /\ ExecutedNow # <<>>
            /\ ExecutedNow[1] = nextId - Len(lastCall.actions))

\* C5 witness: [check_item Key, give_item Gold] aborted without the Gold, and
\* the list submitted next has executed its first action.
GateWitness ==
    /\ lastCall.op = "run" /\ lastCall.prevOutcome = "aborted"
    /\ SubSeq(enqueued, 1, 2) = <<CheckKey, GiveGold>>
    /\ 2 \in discarded
    /\ executed = <<1, 3>>

\* C6: whenever a script finishes (drained or aborted), running is false,
\* sourceEntity is null and inputLocked is false.
FinishUnlocks ==
    lastCall.outcome \in {"finished", "aborted"} =>
        ~running /\ sourceEntity = NoEntity /\ ~inputLocked

\* C6 witness: a script that had locked the input and was attributed to an
\* entity drained to empty in an update.
FinishWitness ==
    /\ lastCall.op = "update" /\ lastCall.outcome = "finished"
    /\ lastCall.wasLocked
    /\ \E i \in Range(executed) : enqueued[i] = LockInput

\* C7: a script that is running is eventually Idle again when update keeps
\* being called.
EventuallyIdle == running ~> ~running

\* C8: [set_variable score=5, show_dialog "Hi" 2 s] from Idle returns with
\* running, waitTimer 2 s, score 5 and dialog "Hi"; suspended on that
\* show_dialog as its last action the script is running exactly as long as
\* the dt values sum to less than 2 s; and a script suspended on its last
\* action stops running in the update that uses up the wait, and in no other.
DialogScenario ==
    /\ []((/\ lastCall.op = "run" /\ ~lastCall.wasRunning
           /\ lastCall.actions = <<SetScore5, ShowHi>>)
          => /\ running /\ waitTimer = Sec(2) /\ queue = <<>>
             /\ getVar(State, "score", 0) = 5
             /\ dialogText = "Hi")
    /\ [][(lastCall'.op = "update" /\ running /\ queue = <<>> /\ pending = <<ShowHi>>)
          => (running' <=> elapsed + lastCall'.dt < Sec(2))]_allVars
    /\ [][(lastCall'.op = "update" /\ running /\ queue = <<>>)
          => (~running' <=> (waitTimer > 0 /\ lastCall'.dt >= waitTimer))]_allVars

\* C8 witness: the scenario's script has finished in the second of two
\* updates of one second.
DialogWitness ==
    /\ enqueued = <<SetScore5, ShowHi>>
    /\ executed = <<1, 2>>
    /\ lastCall.op = "update" /\ lastCall.dt = Sec(1)
    /\ lastCall.outcome = "finished"
    /\ ~running

\* C9: after Engine.setMode('play') and after Engine._respawn the
\* interpreter is not running, its queue is empty and its waitTimer is 0.
ResetClears ==
    lastCall.op \in {"setModePlay", "respawn"} =>
        ~running /\ queue = <<>> /\ waitTimer = 0

\* C10: one frame callback runs the simulation step at most 0.25 / fixedDt
\* times: steps <= 0.25 / fixedDt, that is steps * fixedDt <= 0.25.
StepsClamped == steps * FixedDt <= MaxFrameTime

\* The calls of one frame callback: updates, then a render, then the request.
Updates(k) == [i \in 1..k |-> "update"]
FrameShapes(k) ==
    {Updates(k), Updates(k) \o <<"render">>, Updates(k) \o <<"render", "request">>}
Called(what) == Len(frameLog') = Len(frameLog) + 1 /\ Last(frameLog') = what

\* C11: a frame callback that runs while the loop is running calls update
\* once per fixedDt it subtracts from the accumulator, for as long as a
\* fixedDt can be subtracted, then render exactly once, after the last update
\* and before it requests the next frame.
FrameOrder ==
    /\ [](\E k \in 0..Len(frameLog) : frameLog \in FrameShapes(k))
    /\ []((pc = "idle" /\ frameLog # <<>>) =>
            frameLog = Updates(steps) \o <<"render", "request">>)
    /\ [][(frames' # frames /\ loopRunning) => pc' = "sim" /\ frameLog' = <<>>]_allVars
    /\ [][Called("update") => accumulator >= FixedDt /\ pc' = "update"]_allVars
    /\ [][(pc = "update" /\ pc' = "sim") => accumulator' = accumulator - FixedDt]_allVars
    /\ [][(pc = "update" /\ pc' # "update") => pc' = "sim"]_allVars
    /\ [][Called("render") => accumulator < FixedDt /\ accumulator' = accumulator]_allVars
    /\ [][Called("request") =>
            /\ Last(frameLog) = "render"
            /\ pendingFrames' = pendingFrames \cup {lastRafId'}
            /\ lastRafId' \notin pendingFrames]_allVars

\* C11 witness: a frame callback has run several updates, rendered and
\* requested the next frame.
FrameWitness ==
    /\ pc = "idle" /\ steps > 1
    /\ frameLog = Updates(steps) \o <<"render", "request">>

\* C12: stop() cancels the pending frame callback, and between a stop() and
\* the next start() no update and no render is called, wherever stop() was
\* called from.
StopHalts ==
    /\ [][~loopRunning => ~Called("update") /\ ~Called("render")]_allVars
    /\ [][(loopRunning /\ ~loopRunning') =>
            rafId' = 0 /\ pendingFrames' = pendingFrames \ {rafId}]_allVars

\* C13: an exception thrown by update or render leaves the frame callback
\* without a request for the next frame, and then scheduling has halted: no
\* frame callback is pending, unless a start() made since the throwing
\* callback began has requested it.
ThrowHalts ==
    /\ [][Called("throw") =>
            pc' = "idle" /\ pendingFrames' = pendingFrames /\ lastRafId' = lastRafId]_allVars
    /\ [](halted => \A id \in pendingFrames : id > rafAtBegin)

\* The systems the tick called, in order.
Calls(log) == SelectSeq(log, LAMBDA e : e.ev = "call")
Systems(log) == [i \in 1..Len(Calls(log)) |-> Calls(log)[i].sys]
TickOrder == <<"interpreter", "combat", "input", "behavior", "trigger">>
DeathScreenUp(log) == \E i \in 1..Len(log) : log[i].ev = "dead"
Ticked == ticks' # ticks

Noted(log, ev, what) == \E i \in 1..Len(log) : log[i].ev = ev /\ log[i].what = what
LockedAt(log, sys, ev) == \E i \in 1..Len(log) : log[i].sys = sys /\ log[i].ev = ev /\ log[i].locked

\* C15: a tick accepts no command of the player at a point where it finds
\* inputLocked true: the player-input part that finds the lock starts no
\* attack and leaves the player without velocity unless a knockback is on,
\* and neither a movement, nor an attack, nor an interaction with an NPC or
\* an on_interact trigger is accepted under the lock.
LockedInputIgnored ==
    [][Ticked =>
        /\ \A i \in 1..Len(tickLog') : tickLog'[i].ev = "accept" => ~tickLog'[i].locked
        /\ (LockedAt(tickLog', "input", "call") /\ mode' = "play") =>
                /\ "knockback" \notin timers' => ~moving'
                /\ "attack" \in timers' => "attack" \in timers]_allVars

LockedInputWitness ==
    /\ ticks > 1 /\ mode = "play" /\ inputLocked /\ ~moving
    /\ LockedAt(tickLog, "input", "call")
    /\ LockedAt(tickLog, "input", "ignore")
    /\ LockedAt(tickLog, "interact", "ignore")
    /\ Noted(tickLog, "ignore", "move") /\ Noted(tickLog, "ignore", "interact")

\* C16: while a script is running no system other than the interpreter
\* writes the game state or the dialog text: in no tick does the combat
\* system, the trigger system with its item pickup or the NPC interaction
\* write a variable, the inventory or the dialog text at a point where
\* running is true.
SoleWriter ==
    [][Ticked => \A i \in 1..Len(tickLog') : tickLog'[i].ev = "write" => ~tickLog'[i].running]_allVars

\* An action that finds nothing to act on, in a script run for src.
FindsNothing(a, src) ==
    \/ ~Has(a, "type")
    \/ a.type \notin KnownKinds
    \/ a.type = "teleport" /\ OrStr(a, "spawnId", "default") \notin SpawnIds
    \/ a.type = "remove_entity" /\ src = NoEntity
\* The same, or an action without params of a kind that reads params.
NoParams(a, src) ==
    \/ FindsNothing(a, src)
    \/ DOMAIN a = {"type"} /\ a.type \notin {"remove_entity", "camera_follow", "lock_input"}

\* A queue without the actions I takes for inert.
RECURSIVE Without(_, _, _)
Without(I(_, _), q, src) ==
    IF q = <<>> THEN <<>>
    ELSE (IF I(Head(q), src) THEN <<>> ELSE <<Head(q)>>) \o Without(I, Tail(q), src)

\* What a script leaves behind, but for the inert actions still queued.
Effects(I(_, _), s) ==
    [ flags |-> s.flags, vars |-> s.vars, inventory |-> s.inventory,
      player |-> s.player, active |-> s.active, camera |-> s.camera,
      dialogText |-> s.dialogText, dialogTimer |-> s.dialogTimer,
      running |-> s.running, waitTimer |-> s.waitTimer, inputLocked |-> s.inputLocked,
      sourceEntity |-> s.sourceEntity, queue |-> Without(I, s.queue, s.sourceEntity) ]

\* The call just made, had the script been written without its inert actions.
Stripped(I(_, _), c) ==
    IF c.op = "run"
    THEN LET actions == Without(I, c.actions, c.src)
         IN  _processQueue([State EXCEPT !.queue = actions, !.qids = [i \in 1..Len(actions) |-> i],
                                         !.sourceEntity = c.src, !.running = TRUE,
                                         !.waitTimer = 0])
    ELSE update([State EXCEPT !.queue = Without(I, queue, sourceEntity),
                              !.qids = [i \in 1..Len(Without(I, queue, sourceEntity)) |-> i]], c.dt)

Drains(c) == (c.op = "run" /\ ~c.wasRunning /\ c.actions # <<>>) \/ c.op = "update"
SameAsWithout(I(_, _)) ==
    Drains(lastCall') => Effects(I, State)' = Effects(I, Stripped(I, lastCall'))

\* C17: an action of a kind _execute does not know, an action without a
\* type or without params, a teleport to an unknown spawn id and a
\* remove_entity without a source entity are inert and let the drain go on: a
\* call leaves what it would have left had these actions not been in the
\* script.
InertWithNoParams == [][SameAsWithout(NoParams)]_allVars

\* C17, amended: the same of an action of a kind _execute does not know, an
\* action without a type, a teleport to an unknown spawn id and a
\* remove_entity without a source entity; an action of a known kind without
\* params is executed with the defaults of its parameters.
InertActions == [][SameAsWithout(FindsNothing)]_allVars

InertWitness ==
    /\ lastCall.op = "run" /\ ~lastCall.wasRunning
    /\ lastCall.actions = <<TeleportNowhere, HealPlayer2, SetFlagF>>
    /\ executed = <<1, 2, 3>> /\ ~running
    /\ getFlag(State, "f") /\ player = SpawnPos("default")

RoundTripEqual == [][(restored' /\ ~restored) => store' = store]_allVars

RoundTripWitness ==
    /\ restored
    /\ Len(store.flags) = 2 /\ store.flags[1].key = "b" /\ ~store.flags[1].value
    /\ Len(store.vars) = 3 /\ store.vars[3].value = MaxVar
    /\ Len(store.inventory) = 2 /\ store.inventory[1].name = "Key"

\* The effect the definition of a combat or fade action describes, from the
\* state s before it to the state t after it.
Described(a, s, t) ==
    CASE a.type = "heal_player" ->
             getVar(t, "hp", 0) = (IF getVar(s, "hp", 0) + a.amount > getVar(s, "maxHp", 6)
                                   THEN getVar(s, "maxHp", 6)
                                   ELSE getVar(s, "hp", 0) + a.amount)
      [] a.type = "damage_player" -> getVar(t, "hp", 0) < getVar(s, "hp", 0)
      [] a.type = "set_max_hp" -> getVar(t, "maxHp", 0) = a.value
      [] a.type = "set_attack" -> getVar(t, "attack", 0) = a.value
      [] OTHER -> TRUE

\* C20: a script of one action of a type of ACTION_TYPES, run while no
\* script is running, is handled by a case of _execute and not by its default
\* branch, and leaves the effect its definition describes: damage_player
\* lowers hp, heal_player raises it up to maxHp, set_max_hp and set_attack
\* set the stat to the given value, screen_fade (out) starts a fade out.
TypesInterpreted ==
    [][(/\ lastCall'.op = "run" /\ ~lastCall'.wasRunning
        /\ lastCall'.actions \in {<<a>> : a \in EditorActions})
       => LET a == lastCall'.actions[1]
          IN  /\ a.type \in KnownKinds
              /\ Described(a, State, State')
              /\ a = ScreenFadeOut => fade' = "fade_out"]_allVars


\* C21: between the calls of run and update waitTimer >= 0 and the
\* interpreter is Idle (not running, empty queue, waitTimer = 0) or Suspended
\* (running, waitTimer > 0), whatever the actions and their parameters.
IdleOrSuspended ==
    /\ waitTimer >= 0
    /\ \/ ~running /\ queue = <<>> /\ waitTimer = 0
       \/ running /\ waitTimer > 0


\* C22: in every state of the engine, whatever the submissions, ticks, mode
\* changes and respawns, no script running implies the player's input is not
\* locked.
UnlockedWhenIdle == ~running => ~inputLocked


\* C23: once Engine.setMode('play') has interrupted a running or suspended
\* script, none of the actions that were in the queue at that point is ever
\* executed, whatever ticks and submissions follow.
StaleNeverRuns ==
    \A id \in 1..MaxActions :
        []((/\ lastCall.op = "setModePlay" /\ lastCall.wasRunning
            /\ id \in Range(qids))
           => [](id \notin Range(executed)))

\* A dialog script interrupted by the Play button with set_flag still
\* queued, and a script submitted and executed in the new session.
StaleWitness ==
    /\ enqueued = <<ShowHi, SetFlagF, SetScore5>>
    /\ executed = <<1, 3>> /\ discarded = {2}
    /\ resets = 2 /\ ~running /\ queue = <<>>
    /\ ~getFlag(State, "f") /\ getVar(State, "score", 0) = 5


\* C24: a gate that fails empties the queue: every action still queued,
\* those of lists appended by run calls made while the script was running
\* included, is discarded, and no appended action that was discarded is ever
\* executed.
AbortDropsAppended ==
    /\ [][lastCall'.outcome = "aborted" =>
            /\ queue' = <<>> /\ qids' = <<>>
            /\ (Range(qids) \cup (nextId..(nextId' - 1))) \ Range(executed') \subseteq discarded'
            /\ appended' \ Range(executed') \subseteq discarded']_allVars
    /\ [](appended \cap discarded \cap Range(executed) = {})

\* [give_item Gold, check_item Key] waits on the Gold message, a second run
\* appends set_flag, and the resumed check_item fails without the Key.
AbortAppendedWitness ==
    /\ enqueued = <<GiveGold, CheckKey, SetFlagF>>
    /\ appended = {3} /\ executed = <<1, 2>> /\ discarded = {3}
    /\ lastCall.op = "update" /\ lastCall.outcome = "aborted"
    /\ ~running /\ queue = <<>> /\ ~getFlag(State, "f")


\* C25: whatever the interleaving of start() and stop(), calls made inside
\* the update or render callback of a frame in progress included, at most one
\* frame callback is pending.
OneFramePending == Cardinality(pendingFrames) <= 1


\* C30: the accumulator a frame callback passes to render (alpha is
\* accumulator / fixedDt) and the accumulator it leaves behind satisfy
\* 0 <= accumulator < fixedDt, whatever the frame timestamps.
AccumulatorInRange ==
    /\ [][Called("render") => 0 <= accumulator /\ accumulator < FixedDt]_allVars
    /\ []((pc = "idle" /\ frameLog # <<>> /\ Last(frameLog) = "request") =>
            0 <= accumulator /\ accumulator < FixedDt)


\* C26: every key press is found in Input._keysPressed by exactly one
\* simulation tick, by no more than one while it is held there and by one
\* once endFrame has cleared it, and the ticks start no more interactions
\* than there were presses.
KeyPressSeenOnce ==
    /\ \A i \in DOMAIN seen : seen[i] <= 1 /\ (i \notin fresh => seen[i] = 1)
    /\ started <= Len(seen)

\* C27: in a tick in which the interpreter resumes after the wait of a
\* show_dialog or give_item, the tick finds the dialog text cleared and the
\* dialog timer run out; and while a script waits on such an action the
\* dialog timer is the one that action has set, one tick ahead of the wait,
\* and the text the action's until that timer runs out or a respawn clears
\* it: no older timeout clears the text of a later show_dialog.
UpdateCalledIn(log) ==
    \E i \in DOMAIN log : log[i].sys = "interpreter" /\ log[i].ev = "call"
SuspendedOnDialog ==
    /\ running /\ waitTimer > 0 /\ executed # <<>>
    /\ enqueued[Last(executed)].type \in {"show_dialog", "give_item"}
TextOf(a) == IF a.type = "show_dialog" THEN a.text ELSE "Got Gold!"
ResumeOnDialog ==
    SuspendedOnDialog /\ waitTimer <= StepDt /\ ticks' = ticks + 1 /\ UpdateCalledIn(tickLog')
DialogClearedBeforeResume ==
    /\ [][ResumeOnDialog => dialogText = Null /\ dialogTimer <= 0]_allVars
    /\ [](SuspendedOnDialog =>
             /\ dialogTimer = waitTimer - StepDt
             /\ dialogTimer > 0 => dialogText \in {TextOf(enqueued[Last(executed)]), Null}
             /\ dialogTimer <= 0 => dialogText = Null)
DialogResumedWitness ==
    /\ enqueued = <<ShowBye1, ShowHi, SetFlagF>>
    /\ executed = <<1, 2, 3>>
    /\ ~running /\ getFlag(State, "f")
    /\ dialogText = Null

\* C29: in one attack swing, from a successful tryAttack to the next, each
\* enemy is damaged at most once.
OneHitPerSwing == \A e \in Entities : swing[e] <= 1

\* C28: in every simulation tick each pending timer of CombatSystem and
\* TriggerSystem is decremented by dt once, whether or not a script runs:
\* after the tick it is dt lower, or it has run out (and may have been
\* started again by the tick), the hit flash possibly started again.
Counted(old, new, start) ==
    IF old - TickUnits > 0 THEN new = old - TickUnits ELSE new <= 0 \/ new = start
CountedIn(old, new, start, restarts) ==
    \A k \in DOMAIN old :
        IF old[k] - TickUnits > 0
        THEN k \in DOMAIN new /\ (new[k] = old[k] - TickUnits \/ (restarts /\ new[k] = start))
        ELSE k \in DOMAIN new => new[k] = start
TimersCountEveryTick ==
    [][(ticks' = ticks + 1 /\ mode = "play") =>
          /\ clk.attack > 0 => Counted(clk.attack, clk'.attack, attackDuration)
          /\ clk.cooldown > 0 => Counted(clk.cooldown, clk'.cooldown, attackCooldownTime)
          /\ clk.invincible > 0 =>
                 Counted(clk.invincible, clk'.invincible, playerInvincibleTime)
          /\ clk.knockback > 0 => Counted(clk.knockback, clk'.knockback, knockbackDuration)
          /\ CountedIn(clk.flash, clk'.flash, enemyFlashTime, TRUE)
          /\ CountedIn(clk.contact, clk'.contact, contactDamageCooldown, FALSE)
          /\ CountedIn(clk.trigger, clk'.trigger, triggerCooldown, FALSE)]_allVars
====
